---------------------------- MODULE Spec2Model ----------------------------
(***************************************************************************)
(* State-machine model of the CAN-FD receive/transmit core in              *)
(* Core/Src/can_bus.c: the ISR-to-worker ring, the fragment codec, the     *)
(* reassembly table and the subscriber registry.                           *)
(*                                                                         *)
(* Byte arrays are sequences (index i of the C array is element i+1).      *)
(***************************************************************************)
EXTENDS Integers, Sequences, FiniteSets, TLC

VARIABLES
    g_rx_head,      \* can_bus.c:172  producer index
    g_rx_tail,      \* can_bus.c:173  consumer index (also written by the ISR when full)
    g_rx_ring,      \* can_bus.c:174  ring slots, index 0..DEPTH-1
    pc,             \* position of the worker inside rb_pop
    pop_t,          \* rb_pop local t
    pop_out,        \* rb_pop *out (the caller's frame f)
    g_reasm,        \* can_bus.c:267  reassembly slots, index 0..SLOTS-1
    g_subs,         \* can_bus.c:123  subscriber table, index 0..MAX_SUBSCRIBERS-1
    tick,           \* HAL_GetTick(): 32-bit millisecond counter
    wpc,            \* position of the worker inside can_bus_process_rx
    proc_now,       \* can_bus_process_rx local now
    pushCount,      \* history: number of frames the ISR has pushed
    evictCount,     \* history: number of times the ISR advanced g_rx_tail
    popped,         \* history: frames returned by rb_pop (return value 1), in order
    firstPop,       \* history: "none" before the first call of rb_pop, then
                    \* "overflow" if DEPTH+1 frames had been pushed by then, else "other"
    handled,        \* history: the calls of handle_rx_frame, [frame, now], in order
    notified,       \* history: the subscriber callback invocations, in order
    tickSteps,      \* history: number of clock advances
    g_hfdcan,       \* can_bus.c:122  FDCAN handle, NULL before can_bus_init
    g_seq,          \* can_bus.c:527  can_bus_send_large's static sequence counter
    txq,            \* the frames handed to HAL_FDCAN_AddMessageToTxFifoQ, in order
    txRet,          \* return value of the last can_bus_send_large call, "none" before
    busPos,         \* number of frames of txq the bus has delivered to RX FIFO1
    sendBuf,        \* the buffer given to can_bus_send_large: [bytes, std_id]
    txCalls,        \* history: the can_bus_send_large calls, [st, failAt, frames, seq, len]
    subCall,        \* the last registry call: [op, cb, user, ret]
    subCalls,       \* history: number of registry calls
    dlcArg,         \* argument of a length-conversion call: [fn, val]
    dlcRes,         \* its results once the call has run: [done, wire, dlc, len, direct]
    clk,            \* history of the clock specification: [ticks64, since, n], the timer
                    \* interrupts since boot and since the last tx_raw_now_ms call,
                    \* and the number of advances
    rxCall,         \* the last handle_rx_frame call of the slot-table specification:
                    \* [done, n, tbl, f, now, copy], tbl the table it was given,
                    \* copy the memcpy it made into a slot buffer
    tps,            \* TX_TIMER_TICKS_PER_SECOND of the build
    tx_time,        \* the ThreadX tick counter read by tx_time_get(), a uint32_t
    last_ticks32,   \* telemetry.c:507  tx_raw_now_ms's static last_ticks32
    high,           \* telemetry.c:508  tx_raw_now_ms's static high
    sync,           \* the last on_timesync call: packet, t4, offset, delay, set, ret
    reads,          \* history: tx_raw_now_ms readings taken outside the handler,
                    \* [ms, since]: since = "before" or the ticks elapsed after the handler
    syncTicks,      \* history: tick interrupts, and how many came after the handler
    wk,             \* telemetry_thread_entry: [pc, last_req_ms, iters]
    g_timesync_seq, \* telemetry.c:689
    reqs,           \* history: the telemetry_timesync_request calls, [seq, t1, now_ms]
    chk,            \* history: the last period check of the loop, [now_ms, last, issued]
    g_router,       \* telemetry.c:592  [r, created, start_time]
    g_can_rx_subscribed,  \* telemetry.c:488
    g_can_side_id,  \* telemetry.c:489
    th,             \* per thread: position inside its telemetry call and its locals
    routers,        \* history: the routers seds_router_new returned, each with the
                    \* side id seds_router_add_side_serialized returned for it
    rxLog           \* history: the buffers handed to the router, [r, tagged, side]

ringVars  == <<g_rx_head, g_rx_tail, g_rx_ring>>
popVars   == <<pc, pop_t, pop_out>>
histVars  == <<pushCount, evictCount, popped, firstPop>>
rxVars    == <<g_reasm, wpc, proc_now, handled, notified>>
clockVars == <<tick, tickSteps>>
txVars    == <<g_hfdcan, g_seq, txq, txRet, busPos, sendBuf, txCalls>>
subVars   == <<g_subs, subCall, subCalls>>
pureVars  == <<dlcArg, dlcRes, rxCall, clk>>
timeVars  == <<tps, tx_time, last_ticks32, high, sync, reads, syncTicks>>
workVars  == <<wk, g_timesync_seq, reqs, chk>>
routerVars == <<g_router, g_can_rx_subscribed, g_can_side_id, th, routers, rxLog>>
extVars   == <<pureVars, timeVars, workVars, routerVars>>   \* untouched by the CAN operations
canVars   == <<ringVars, popVars, histVars, rxVars, subVars, clockVars, txVars>>
restVars  == <<rxVars, subVars, clockVars, txVars, extVars>>   \* untouched by the ring operations
vars      == <<ringVars, popVars, histVars, restVars>>

-----------------------------------------------------------------------------
(* Program constants *)

CAN_BUS_MAX_SUBSCRIBERS == 8
CAN_BUS_FRAG_MAGIC == 21316            \* 0x5344
CAN_BUS_FRAG_WIRE_LEN == 64
CAN_BUS_REASM_TIMEOUT_MS == 250
CAN_BUS_RX_RING_DEPTH == 64
CAN_BUS_REASM_SLOTS == 4
CAN_BUS_REASM_MAX_BYTES == 2048
CAN_BUS_REASM_MAX_FRAGS == 64
FRAME_DATA_BYTES == 64                 \* uint8_t data[64]
HDR_SIZE == 8                          \* sizeof(can_bus_frag_hdr_t), packed
FDCAN_IT_RX_FIFO1_NEW_MESSAGE == 1
DLC_INVALID == -1                      \* 0xFFFFFFFFu, the all-ones word
NULL == 0
HAL_OK == 0
HAL_ERROR == 1
U8 == 256
U16 == 65536


(* Model bounds *)

MaxPush == 66          \* frames pushed in the ring specification
MaxEvents == 4         \* frames received plus clock advances in the receive specification
MaxLen == 114          \* buffer lengths 1..MaxLen in the round-trip specification
MaxCalls == 3          \* registry calls in the registry specification
MaxSendLen == 120      \* buffer lengths 0..MaxSendLen in the send specification
MaxSends == 2          \* can_bus_send_large calls in the abort specification
MaxTicks == 1          \* clock advances in the abort specification
MaxDlcLen == 70        \* largest length given to the length conversions
MaxReads == 1          \* tx_raw_now_ms calls outside the handler in the time-sync specification
MaxClockTicks == 1     \* ThreadX timer interrupts in the time-sync specification
MaxIters == 10         \* loop iterations of the telemetry thread
MaxThreadCalls == 2    \* telemetry calls per thread in the router specifications
MaxRecv == 2           \* frames handled after the preloaded ones in the slot-table specification
MaxAdvances == 4       \* timer advances in the clock specification
MaxClockReads == 3     \* tx_raw_now_ms calls in the clock specification
MaxMsgLen == 520       \* longest formatted error message in the logging specification

-----------------------------------------------------------------------------
(* Helpers for C arithmetic and byte arrays *)

Min(a, b) == IF a < b THEN a ELSE b

Max(a, b) == IF a > b THEN a ELSE b

SetMin(S) == CHOOSE x \in S : \A y \in S : x <= y

SetMax(S) == CHOOSE x \in S : \A y \in S : x >= y

Zeros(n) == [i \in 1..n |-> 0]

\* uint32_t values are pairs <<high half-word, low half-word>>, so that no
\* intermediate value reaches 2^31.  Arithmetic is modulo 2^32.
U32Of(n) == <<(n \div U16) % U16, n % U16>>

U32Add(a, b) ==
    <<(a[1] + b[1] + ((a[2] + b[2]) \div U16)) % U16, (a[2] + b[2]) % U16>>

U32Sub(a, b) ==
    <<(a[1] - b[1] - (IF a[2] < b[2] THEN 1 ELSE 0)) % U16, (a[2] - b[2]) % U16>>

U32Gt(a, b) == a[1] > b[1] \/ (a[1] = b[1] /\ a[2] > b[2])

U32Ge(a, b) == a = b \/ U32Gt(a, b)

\* Wider machine words are sequences of 16-bit limbs, most significant first:
\* four limbs for uint64_t/int64_t (two's complement), two for uint32_t.
RECURSIVE LimbAdd(_, _, _)
LimbAdd(a, b, c) ==
    IF a = <<>> THEN <<>>
    ELSE LET n == Len(a)
             t == a[n] + b[n] + c
         IN  Append(LimbAdd(SubSeq(a, 1, n - 1), SubSeq(b, 1, n - 1), t \div U16), t % U16)

LimbNot(a) == [i \in 1..Len(a) |-> U16 - 1 - a[i]]

LimbNeg(a) == LimbAdd(LimbNot(a), Zeros(Len(a)), 1)

LimbSub(a, b) == LimbAdd(a, LimbNot(b), 1)

LimbIsNeg(a) == a[1] >= 32768

LimbShr1(a) ==
    [i \in 1..Len(a) |-> (a[i] \div 2) + (IF i > 1 THEN (a[i - 1] % 2) * 32768 ELSE 0)]

\* Signed division by 2, truncating toward zero as C does.
LimbDiv2(a) == IF LimbIsNeg(a) THEN LimbNeg(LimbShr1(LimbNeg(a))) ELSE LimbShr1(a)

LimbULt(a, b) == \E i \in 1..Len(a) : a[i] < b[i] /\ \A j \in 1..(i - 1) : a[j] = b[j]

LimbSLt(a, b) == IF LimbIsNeg(a) # LimbIsNeg(b) THEN LimbIsNeg(a) ELSE LimbULt(a, b)

ZeroExt(a, n) == [i \in 1..n |-> IF i <= n - Len(a) THEN 0 ELSE a[i - (n - Len(a))]]

SignExt(a, n) ==
    [i \in 1..n |-> IF i <= n - Len(a) THEN (IF LimbIsNeg(a) THEN U16 - 1 ELSE 0)
                     ELSE a[i - (n - Len(a))]]

Trunc(a, n) == SubSeq(a, Len(a) - n + 1, Len(a))

RECURSIVE LimbMulSmall(_, _, _)
LimbMulSmall(a, k, c) ==
    IF a = <<>> THEN <<>>
    ELSE LET n == Len(a)
             t == a[n] * k + c
         IN  Append(LimbMulSmall(SubSeq(a, 1, n - 1), k, t \div U16), t % U16)

RECURSIVE LimbDivSmall(_, _, _)
LimbDivSmall(a, k, r) ==
    IF a = <<>> THEN <<>>
    ELSE LET cur == r * U16 + a[1]
         IN  <<cur \div k>> \o LimbDivSmall(Tail(a), k, cur % k)

\* The n-limb word of an integer of magnitude below 2^31.
LimbOfInt(v, n) ==
    IF v >= 0 THEN ZeroExt(<<v \div U16, v % U16>>, n)
    ELSE LimbNeg(ZeroExt(<<(-v) \div U16, (-v) % U16>>, n))

LimbFitsInt(a) ==
    LET m == IF LimbIsNeg(a) THEN LimbNeg(a) ELSE a
    IN  /\ \A i \in 1..(Len(a) - 2) : m[i] = 0
        /\ m[Len(a) - 1] < 32768

\* The integer of a word for which LimbFitsInt holds.
LimbToInt(a) ==
    LET m == IF LimbIsNeg(a) THEN LimbNeg(a) ELSE a
        v == m[Len(a) - 1] * U16 + m[Len(a)]
    IN  IF LimbIsNeg(a) THEN -v ELSE v

\* C integer division, truncating toward zero.
TruncDiv(x, y) == IF x >= 0 THEN x \div y ELSE -((-x) \div y)

\* memcpy(dst, src, n): the first n bytes of dst are replaced, the rest kept.
Memcpy(dst, src, n) == [i \in 1..Len(dst) |-> IF i <= n THEN src[i] ELSE dst[i]]

-----------------------------------------------------------------------------
(* FD DLC helpers *)

DlcMap == <<0, 1, 2, 3, 4, 5, 6, 7, 8, 12, 16, 20, 24, 32, 48, 64>>

can_bus_dlc_to_len(dlc) == DlcMap[(dlc % 16) + 1]

\* FDCAN_DLC_BYTES_n: the DataLength value of an n-byte frame, the DLC code
\* (can_bus.c:503 and :618 treat DataLength as the DLC code).
FDCAN_DLC_BYTES_0 == 0
FDCAN_DLC_BYTES_1 == 1
FDCAN_DLC_BYTES_2 == 2
FDCAN_DLC_BYTES_3 == 3
FDCAN_DLC_BYTES_4 == 4
FDCAN_DLC_BYTES_5 == 5
FDCAN_DLC_BYTES_6 == 6
FDCAN_DLC_BYTES_7 == 7
FDCAN_DLC_BYTES_8 == 8
FDCAN_DLC_BYTES_12 == 9
FDCAN_DLC_BYTES_16 == 10
FDCAN_DLC_BYTES_20 == 11
FDCAN_DLC_BYTES_24 == 12
FDCAN_DLC_BYTES_32 == 13
FDCAN_DLC_BYTES_48 == 14
FDCAN_DLC_BYTES_64 == 15

can_bus_len_to_dlc(len) ==
    CASE len = 0 -> FDCAN_DLC_BYTES_0
      [] len = 1 -> FDCAN_DLC_BYTES_1
      [] len = 2 -> FDCAN_DLC_BYTES_2
      [] len = 3 -> FDCAN_DLC_BYTES_3
      [] len = 4 -> FDCAN_DLC_BYTES_4
      [] len = 5 -> FDCAN_DLC_BYTES_5
      [] len = 6 -> FDCAN_DLC_BYTES_6
      [] len = 7 -> FDCAN_DLC_BYTES_7
      [] len = 8 -> FDCAN_DLC_BYTES_8
      [] len = 12 -> FDCAN_DLC_BYTES_12
      [] len = 16 -> FDCAN_DLC_BYTES_16
      [] len = 20 -> FDCAN_DLC_BYTES_20
      [] len = 24 -> FDCAN_DLC_BYTES_24
      [] len = 32 -> FDCAN_DLC_BYTES_32
      [] len = 48 -> FDCAN_DLC_BYTES_48
      [] len = 64 -> FDCAN_DLC_BYTES_64
      [] OTHER -> DLC_INVALID

\* can_bus_round_up_fd_len without the 20-byte step.
can_bus_round_up_fd_len_Skip20(len) ==
    IF len <= 8 THEN len
    ELSE IF len <= 12 THEN 12
    ELSE IF len <= 16 THEN 16
    ELSE IF len <= 24 THEN 24
    ELSE IF len <= 32 THEN 32
    ELSE IF len <= 48 THEN 48
    ELSE 64

can_bus_round_up_fd_len(len) ==
    IF len <= 8 THEN len
    ELSE IF len <= 12 THEN 12
    ELSE IF len <= 16 THEN 16
    ELSE IF len <= 20 THEN 20
    ELSE IF len <= 24 THEN 24
    ELSE IF len <= 32 THEN 32
    ELSE IF len <= 48 THEN 48
    ELSE 64

-----------------------------------------------------------------------------
(* RX ring buffer (ISR -> thread) *)

ZeroFrame == [std_id |-> 0, len |-> 0, data |-> Zeros(FRAME_DATA_BYTES)]

rb_next(v) == IF v + 1 >= CAN_BUS_RX_RING_DEPTH THEN 0 ELSE v + 1

rb_is_full(head, tail) == rb_next(head) = tail

PushTail_NoDrop(head, tail) == tail

\* PushTail that advances the tail at every push.
PushTail_Always(head, tail) == rb_next(tail)

\* New tail after the drop-oldest branch of rb_push_drop_oldest.
PushTail(head, tail) == IF rb_is_full(head, tail) THEN rb_next(tail) ELSE tail

PushSlot_ShortCopy(old, std_id, data, len) ==
    [std_id |-> std_id, len |-> Min(len, 64),
     data |-> Memcpy(old.data, data, Min(len, 64) - 1)]

\* The slot written by rb_push_drop_oldest: id, len and the first len data bytes.
PushSlot(old, std_id, data, len) ==
    [std_id |-> std_id, len |-> Min(len, 64),
     data |-> Memcpy(old.data, data, Min(len, 64))]

\* rb_push_drop_oldest runs inside the ISR, which the worker cannot pre-empt:
\* one atomic step.
rb_push_drop_oldest(std_id, data, len) ==
    /\ g_rx_tail' = PushTail(g_rx_head, g_rx_tail)
    /\ g_rx_ring' = [g_rx_ring EXCEPT
                        ![g_rx_head] = PushSlot(g_rx_ring[g_rx_head], std_id, data, len)]
    /\ g_rx_head' = rb_next(g_rx_head)

\* What a consumer can read of a frame: the id, the length and len data bytes.
FrameView(f) == [std_id |-> f.std_id, len |-> f.len, data |-> SubSeq(f.data, 1, f.len)]

\* Number of frames between tail and head.
Occupancy == (g_rx_head - g_rx_tail) % CAN_BUS_RX_RING_DEPTH

-----------------------------------------------------------------------------
(* Fragmentation protocol: the packed little-endian header at the start of  *)
(* a fragment frame's payload.                                               *)

\* memcpy(frame, &hdr, sizeof hdr) on the little-endian target.
EncodeHdr(h) ==
    <<h.magic % 256, h.magic \div 256, h.seq, h.frag_idx, h.frag_cnt, h.flags,
      h.total_len % 256, h.total_len \div 256>>

\* memcpy(&hdr, f->data, sizeof hdr).
ParseHdr(d) ==
    [magic |-> d[1] + 256 * d[2], seq |-> d[3], frag_idx |-> d[4], frag_cnt |-> d[5],
     flags |-> d[6], total_len |-> d[7] + 256 * d[8]]

-----------------------------------------------------------------------------
(* Subscriber fanout *)

\* The callback invocations of can_bus_notify_rx(data, len), in table order; at
\* tags them with the number of the handle_rx_frame call that made them.
can_bus_notify_rx(subs, data, len, at) ==
    LET all == [i \in 1..CAN_BUS_MAX_SUBSCRIBERS |->
                   [cb |-> subs[i - 1].cb, user |-> subs[i - 1].user,
                    data |-> data, len |-> len, at |-> at]]
    IN  SelectSeq(all, LAMBDA r : r.cb # NULL)

\* can_bus_subscribe_rx without the scan for an existing (cb, user) entry.
can_bus_subscribe_rx_NoDupScan(subs, cb, user) ==
    LET free == {i \in DOMAIN subs : subs[i].cb = NULL}
    IN  IF cb = NULL \/ free = {}
        THEN [ret |-> HAL_ERROR, subs |-> subs]
        ELSE [ret |-> HAL_OK,
              subs |-> [subs EXCEPT ![SetMin(free)] = [cb |-> cb, user |-> user]]]

\* can_bus_subscribe_rx: the return value and the table after the call.
can_bus_subscribe_rx(subs, cb, user) ==
    LET free == {i \in DOMAIN subs : subs[i].cb = NULL}
    IN  IF cb = NULL
        THEN [ret |-> HAL_ERROR, subs |-> subs]
        ELSE IF \E i \in DOMAIN subs : subs[i].cb = cb /\ subs[i].user = user
        THEN [ret |-> HAL_ERROR, subs |-> subs]
        ELSE IF free # {}
        THEN [ret |-> HAL_OK,
              subs |-> [subs EXCEPT ![SetMin(free)] = [cb |-> cb, user |-> user]]]
        ELSE [ret |-> HAL_ERROR, subs |-> subs]

\* can_bus_unsubscribe_rx that clears user but leaves cb in the entry.
can_bus_unsubscribe_rx_KeepCb(subs, cb, user) ==
    LET hit == {i \in DOMAIN subs : subs[i].cb = cb /\ subs[i].user = user}
    IN  IF cb = NULL \/ hit = {}
        THEN [ret |-> HAL_ERROR, subs |-> subs]
        ELSE [ret |-> HAL_OK,
              subs |-> [subs EXCEPT ![SetMin(hit)] = [cb |-> cb, user |-> NULL]]]

\* can_bus_unsubscribe_rx: the first matching entry is cleared.
can_bus_unsubscribe_rx(subs, cb, user) ==
    LET hit == {i \in DOMAIN subs : subs[i].cb = cb /\ subs[i].user = user}
    IN  IF cb = NULL \/ hit = {}
        THEN [ret |-> HAL_ERROR, subs |-> subs]
        ELSE [ret |-> HAL_OK,
              subs |-> [subs EXCEPT ![SetMin(hit)] = [cb |-> NULL, user |-> NULL]]]

-----------------------------------------------------------------------------
(* Reassembly state.  got_mask is the set of bit indices that are set.  buf *)
(* is the static 2048-byte buffer without its trailing never-written bytes, *)
(* which still hold the zeros of static initialisation.                      *)

FreeSlot ==
    [active |-> 0, std_id |-> 0, seq |-> 0, frag_cnt |-> 0, total_len |-> 0,
     data_cap |-> 0, last_tick_ms |-> U32Of(0), got_mask |-> {}, got_count |-> 0,
     buf |-> <<>>]

\* buf[0..n) as the subscribers read it.
BufRead(buf, n) == [i \in 1..n |-> IF i <= Len(buf) THEN buf[i] ELSE 0]

\* memcpy(&buf[off], payload, take).
BufWrite(buf, off, payload, take) ==
    [i \in 1..Max(Len(buf), off + take) |->
        IF i > off /\ i <= off + take THEN payload[i - off]
        ELSE IF i <= Len(buf) THEN buf[i] ELSE 0]

\* reasm_reset clears every field but buf.
reasm_reset(s) ==
    [s EXCEPT !.active = 0, !.std_id = 0, !.seq = 0, !.frag_cnt = 0, !.total_len = 0,
              !.data_cap = 0, !.last_tick_ms = U32Of(0), !.got_count = 0,
              !.got_mask = {}]

SlotIdx == 0..(CAN_BUS_REASM_SLOTS - 1)

\* (uint32_t)(now_ms - last_tick_ms)
Age(now, last) == U32Sub(now, last)

\* The reset-and-claim sequence of reasm_get_slot's second and third branch.
ClaimSlot(s, std_id, seq, now) ==
    [reasm_reset(s) EXCEPT !.active = 1, !.std_id = std_id, !.seq = seq,
                           !.last_tick_ms = now]

\* First branch of reasm_get_slot: the active slot of std_id is returned; when its
\* seq differs it is reset first (reasm_reset also clears active, std_id and seq,
\* and only last_tick_ms is written afterwards).
ReuseSlot(s, seq, now) ==
    [(IF s.seq # seq THEN reasm_reset(s) ELSE s) EXCEPT !.last_tick_ms = now]

\* Stalest by the smallest last_tick_ms, without the wrapping subtraction.
Stalest_MinTick(tbl, now) ==
    SetMax({i \in SlotIdx : \A j \in SlotIdx :
                U32Ge(tbl[j].last_tick_ms, tbl[i].last_tick_ms)})

\* The stalest slot: the loop keeps the last index whose age is >= the best so far.
Stalest(tbl, now) ==
    LET age(i) == Age(now, tbl[i].last_tick_ms)
    IN  SetMax({i \in SlotIdx : \A j \in SlotIdx : U32Ge(age(i), age(j))})

\* reasm_get_slot that matches an active slot on std_id and seq together.
reasm_get_slot_MatchSeq(tbl, std_id, seq, now) ==
    LET match == {i \in SlotIdx : tbl[i].active # 0 /\ tbl[i].std_id = std_id
                                                   /\ tbl[i].seq = seq}
        free  == {i \in SlotIdx : tbl[i].active = 0}
    IN  IF match # {}
        THEN LET i == SetMin(match)
             IN  [tbl |-> [tbl EXCEPT ![i] = ReuseSlot(tbl[i], seq, now)], idx |-> i]
        ELSE IF free # {}
        THEN LET i == SetMin(free)
             IN  [tbl |-> [tbl EXCEPT ![i] = ClaimSlot(tbl[i], std_id, seq, now)],
                  idx |-> i]
        ELSE LET i == Stalest(tbl, now)
             IN  [tbl |-> [tbl EXCEPT ![i] = ClaimSlot(tbl[i], std_id, seq, now)],
                  idx |-> i]

\* reasm_get_slot: the table after the call and the index of the slot returned.
reasm_get_slot(tbl, std_id, seq, now) ==
    LET match == {i \in SlotIdx : tbl[i].active # 0 /\ tbl[i].std_id = std_id}
        free  == {i \in SlotIdx : tbl[i].active = 0}
    IN  IF match # {}
        THEN LET i == SetMin(match)
             IN  [tbl |-> [tbl EXCEPT ![i] = ReuseSlot(tbl[i], seq, now)], idx |-> i]
        ELSE IF free # {}
        THEN LET i == SetMin(free)
             IN  [tbl |-> [tbl EXCEPT ![i] = ClaimSlot(tbl[i], std_id, seq, now)],
                  idx |-> i]
        ELSE LET i == Stalest(tbl, now)
             IN  [tbl |-> [tbl EXCEPT ![i] = ClaimSlot(tbl[i], std_id, seq, now)],
                  idx |-> i]

bit_test(mask, idx) == idx \in mask

bit_set(mask, idx) == mask \cup {idx}

\* Expired with >= in place of >.
Expired_Inclusive(s, now) ==
    s.active # 0 /\ U32Ge(Age(now, s.last_tick_ms), U32Of(CAN_BUS_REASM_TIMEOUT_MS))

\* Whether reasm_expire_old resets slot s at now_ms.
Expired(s, now) ==
    s.active # 0 /\ U32Gt(Age(now, s.last_tick_ms), U32Of(CAN_BUS_REASM_TIMEOUT_MS))

\* reasm_expire_old that resets nothing.
reasm_expire_old_Skip(tbl, now) == tbl

reasm_expire_old(tbl, now) ==
    [i \in SlotIdx |-> IF Expired(tbl[i], now) THEN reasm_reset(tbl[i]) ELSE tbl[i]]

-----------------------------------------------------------------------------
(* HAL ISR callback.  msg is the message in RX FIFO1: Identifier, DataLength *)
(* (a DLC code) and the payload bytes the HAL copies out.                    *)

HAL_FDCAN_RxFifo1Callback(RxFifo1ITs, msg) ==
    IF RxFifo1ITs % 2 # FDCAN_IT_RX_FIFO1_NEW_MESSAGE
    THEN UNCHANGED ringVars
    ELSE rb_push_drop_oldest(msg.Identifier % 2048, msg.data,
                             Min(can_bus_dlc_to_len(msg.DataLength), 64))

-----------------------------------------------------------------------------
(* rb_pop in worker context, one step per access to the shared ring so that *)
(* the ISR can run between any two of them.  The struct copy                 *)
(* *out = g_rx_ring[t] is not atomic: it is split in two parts.              *)

PopReadTail ==
    /\ pc = "idle"
    /\ pop_t' = g_rx_tail
    /\ pc' = "read_head"
    /\ firstPop' = IF firstPop # "none" THEN firstPop
                   ELSE IF pushCount = CAN_BUS_RX_RING_DEPTH + 1 THEN "overflow"
                   ELSE "other"
    /\ UNCHANGED <<ringVars, pop_out, pushCount, evictCount, popped, restVars>>

PopReadHead ==
    /\ pc = "read_head"
    /\ pc' = IF g_rx_head = pop_t THEN "idle" ELSE "copy_hdr"
    /\ UNCHANGED <<ringVars, pop_t, pop_out, histVars, restVars>>

PopCopyHdr ==
    /\ pc = "copy_hdr"
    /\ pop_out' = [pop_out EXCEPT !.std_id = g_rx_ring[pop_t].std_id,
                                  !.len = g_rx_ring[pop_t].len]
    /\ pc' = "copy_data"
    /\ UNCHANGED <<ringVars, pop_t, histVars, restVars>>

PopCopyData ==
    /\ pc = "copy_data"
    /\ pop_out' = [pop_out EXCEPT !.data = g_rx_ring[pop_t].data]
    /\ pc' = "advance"
    /\ UNCHANGED <<ringVars, pop_t, histVars, restVars>>

PopAdvance ==
    /\ pc = "advance"
    /\ g_rx_tail' = rb_next(pop_t)
    /\ popped' = Append(popped, FrameView(pop_out))
    /\ pc' = "idle"
    /\ UNCHANGED <<g_rx_head, g_rx_ring, pop_t, pop_out, pushCount, evictCount,
                   firstPop, restVars>>

rb_pop_step == PopReadTail \/ PopReadHead \/ PopCopyHdr \/ PopCopyData \/ PopAdvance

-----------------------------------------------------------------------------
(* handle_rx_frame (thread context): the table after the call and the       *)
(* arguments of its can_bus_notify_rx call, if it makes one.                 *)

\* IsFragFrame without the length test.
IsFragFrame_NoLen(f) == ParseHdr(f.data).magic = CAN_BUS_FRAG_MAGIC

IsFragFrame(f) == f.len >= HDR_SIZE /\ ParseHdr(f.data).magic = CAN_BUS_FRAG_MAGIC

\* The header validation without the limit on frag_cnt.
HdrRejected_NoMaxFrags(h) ==
    \/ h.frag_cnt = 0
    \/ h.frag_idx >= h.frag_cnt
    \/ h.total_len = 0
    \/ h.total_len > CAN_BUS_REASM_MAX_BYTES

\* The header validation: the five early returns.
HdrRejected(h) ==
    \/ h.frag_cnt = 0
    \/ h.frag_idx >= h.frag_cnt
    \/ h.frag_cnt > CAN_BUS_REASM_MAX_FRAGS
    \/ h.total_len = 0
    \/ h.total_len > CAN_BUS_REASM_MAX_BYTES

\* A slot with frag_cnt == 0 takes the message parameters of this header.
OpenSlot(s, hdr, payload_len) ==
    IF s.frag_cnt = 0
    THEN [s EXCEPT !.frag_cnt = hdr.frag_cnt, !.total_len = hdr.total_len,
                   !.data_cap = payload_len % U8, !.got_count = 0, !.got_mask = {}]
    ELSE s

\* ParamsMismatch that compares frag_cnt only.
ParamsMismatch_CntOnly(s, hdr) == s.frag_cnt # 0 /\ s.frag_cnt # hdr.frag_cnt

ParamsMismatch(s, hdr) ==
    s.frag_cnt # 0 /\ (s.frag_cnt # hdr.frag_cnt \/ s.total_len # hdr.total_len)

FragOff(s, hdr) == hdr.frag_idx * s.data_cap

\* FragTake without the clamp to the end of the message.
FragTake_NoClamp(s, hdr, payload_len) == payload_len

FragTake(s, hdr, payload_len) ==
    IF FragOff(s, hdr) + payload_len > s.total_len
    THEN s.total_len - FragOff(s, hdr)
    ELSE payload_len

\* StoreFragment that copies the payload of a fragment it already has.
StoreFragment_Overwrite(s, hdr, payload, payload_len, now) ==
    LET got == IF ~bit_test(s.got_mask, hdr.frag_idx)
               THEN [s EXCEPT !.got_mask = bit_set(s.got_mask, hdr.frag_idx),
                              !.got_count = (s.got_count + 1) % U16]
               ELSE s
    IN  [got EXCEPT !.last_tick_ms = now,
                    !.buf = BufWrite(s.buf, FragOff(s, hdr), payload,
                                     FragTake(s, hdr, payload_len))]

\* StoreFragment that counts a fragment it already has.
StoreFragment_CountAll(s, hdr, payload, payload_len, now) ==
    LET got == IF ~bit_test(s.got_mask, hdr.frag_idx)
               THEN [s EXCEPT !.got_mask = bit_set(s.got_mask, hdr.frag_idx),
                              !.got_count = (s.got_count + 1) % U16,
                              !.buf = BufWrite(s.buf, FragOff(s, hdr), payload,
                                               FragTake(s, hdr, payload_len))]
               ELSE [s EXCEPT !.got_count = (s.got_count + 1) % U16]
    IN  [got EXCEPT !.last_tick_ms = now]

\* Mark + copy if not already received, then refresh last_tick_ms.
StoreFragment(s, hdr, payload, payload_len, now) ==
    LET got == IF ~bit_test(s.got_mask, hdr.frag_idx)
               THEN [s EXCEPT !.got_mask = bit_set(s.got_mask, hdr.frag_idx),
                              !.got_count = (s.got_count + 1) % U16,
                              !.buf = BufWrite(s.buf, FragOff(s, hdr), payload,
                                               FragTake(s, hdr, payload_len))]
               ELSE s
    IN  [got EXCEPT !.last_tick_ms = now]

\* handle_fragment that leaves the completed slot as it is.
handle_fragment_KeepSlot(tbl, f, hdr, now) ==
    LET payload     == SubSeq(f.data, HDR_SIZE + 1, f.len)
        payload_len == f.len - HDR_SIZE
        g           == reasm_get_slot(tbl, f.std_id, hdr.seq, now)
        s0          == g.tbl[g.idx]
        s1          == OpenSlot(s0, hdr, payload_len)
        s3          == StoreFragment(s1, hdr, payload, payload_len, now)
    IN  IF ParamsMismatch(s0, hdr)
        THEN [tbl |-> [g.tbl EXCEPT ![g.idx] = reasm_reset(s0)], deliver |-> <<>>]
        ELSE IF FragOff(s1, hdr) >= s1.total_len
        THEN [tbl |-> [g.tbl EXCEPT ![g.idx] = s1], deliver |-> <<>>]
        ELSE [tbl |-> [g.tbl EXCEPT ![g.idx] = s3],
              deliver |-> IF s3.got_count = s3.frag_cnt
                          THEN <<[data |-> BufRead(s3.buf, s3.total_len),
                                  len |-> s3.total_len]>>
                          ELSE <<>>]

handle_fragment(tbl, f, hdr, now) ==
    LET payload     == SubSeq(f.data, HDR_SIZE + 1, f.len)
        payload_len == f.len - HDR_SIZE
        g           == reasm_get_slot(tbl, f.std_id, hdr.seq, now)
        s0          == g.tbl[g.idx]
        s1          == OpenSlot(s0, hdr, payload_len)
        s3          == StoreFragment(s1, hdr, payload, payload_len, now)
    IN  IF ParamsMismatch(s0, hdr)
        THEN [tbl |-> [g.tbl EXCEPT ![g.idx] = reasm_reset(s0)], deliver |-> <<>>]
        ELSE IF FragOff(s1, hdr) >= s1.total_len
        THEN [tbl |-> [g.tbl EXCEPT ![g.idx] = s1], deliver |-> <<>>]
        ELSE IF s3.got_count = s3.frag_cnt
        THEN [tbl |-> [g.tbl EXCEPT ![g.idx] = reasm_reset(s3)],
              deliver |-> <<[data |-> BufRead(s3.buf, s3.total_len),
                             len |-> s3.total_len]>>]
        ELSE [tbl |-> [g.tbl EXCEPT ![g.idx] = s3], deliver |-> <<>>]

\* The arguments of the memcpy into the slot buffer that handle_rx_frame makes
\* for frame f, as a sequence of at most one [off, take, payload_len, total_len].
FragCopy(tbl, f, now) ==
    LET hdr         == ParseHdr(f.data)
        payload_len == f.len - HDR_SIZE
        g           == reasm_get_slot(tbl, f.std_id, hdr.seq, now)
        s0          == g.tbl[g.idx]
        s1          == OpenSlot(s0, hdr, payload_len)
    IN  IF ~IsFragFrame(f) THEN <<>>
        ELSE IF HdrRejected(hdr) THEN <<>>
        ELSE IF ParamsMismatch(s0, hdr) THEN <<>>
        ELSE IF FragOff(s1, hdr) >= s1.total_len THEN <<>>
        ELSE IF bit_test(s1.got_mask, hdr.frag_idx) THEN <<>>
        ELSE <<[off |-> FragOff(s1, hdr), take |-> FragTake(s1, hdr, payload_len),
                payload_len |-> payload_len, total_len |-> s1.total_len]>>

handle_rx_frame(tbl, f, now) ==
    IF IsFragFrame(f)
    THEN IF HdrRejected(ParseHdr(f.data))
         THEN [tbl |-> tbl, deliver |-> <<>>]
         ELSE handle_fragment(tbl, f, ParseHdr(f.data), now)
    ELSE [tbl |-> tbl,
          deliver |-> <<[data |-> SubSeq(f.data, 1, f.len), len |-> f.len]>>]

-----------------------------------------------------------------------------
(* can_bus_process_rx in worker context: the tick read and the staleness    *)
(* sweep, then one step per iteration of the while (rb_pop(&f)) loop.  The   *)
(* ISR may run between the steps.                                            *)

ProcessRxBegin ==
    /\ wpc = "idle"
    /\ proc_now' = tick
    /\ g_reasm' = reasm_expire_old(g_reasm, tick)
    /\ wpc' = "drain"
    /\ UNCHANGED <<ringVars, popVars, histVars, handled, notified, subVars, clockVars,
                   txVars, extVars>>

ProcessRxFrame ==
    /\ wpc = "drain"
    /\ IF g_rx_head = g_rx_tail
       THEN /\ wpc' = "idle"
            /\ proc_now' = U32Of(0)          \* the local goes out of scope
            /\ UNCHANGED <<g_rx_tail, g_reasm, handled, notified>>
       ELSE LET f == g_rx_ring[g_rx_tail]
                r == handle_rx_frame(g_reasm, f, proc_now)
            IN  /\ g_rx_tail' = rb_next(g_rx_tail)
                /\ g_reasm' = r.tbl
                /\ handled' = Append(handled, [frame |-> FrameView(f), now |-> proc_now])
                /\ notified' = notified \o
                      (IF r.deliver = <<>> THEN <<>>
                       ELSE can_bus_notify_rx(g_subs, r.deliver[1].data,
                                              r.deliver[1].len, Len(handled) + 1))
                /\ wpc' = "drain"
                /\ UNCHANGED proc_now
    /\ UNCHANGED <<g_rx_head, g_rx_ring, popVars, histVars, subVars, clockVars, txVars,
                   extVars>>

\* The millisecond tick advances by d (SysTick), wrapping at 2^32.
Tick(d) ==
    /\ tick' = U32Add(tick, U32Of(d))
    /\ tickSteps' = tickSteps + 1
    /\ UNCHANGED <<ringVars, popVars, histVars, rxVars, subVars, txVars, extVars>>

-----------------------------------------------------------------------------
(* Transmit side *)

\* can_bus_send_bytes up to the driver call: the status of the argument checks
\* and the frame handed to HAL_FDCAN_AddMessageToTxFifoQ (txData is zero-padded).
can_bus_send_bytes(hfdcan, bytes, len, std_id) ==
    LET n   == Min(len, 64)
        dlc == can_bus_len_to_dlc(can_bus_round_up_fd_len(n))
    IN  IF hfdcan = NULL \/ len = 0 \/ dlc = DLC_INVALID
        THEN [st |-> HAL_ERROR, frame |-> <<>>]
        ELSE [st |-> HAL_OK,
              frame |-> [Identifier |-> std_id % 2048, DataLength |-> dlc,
                         data |-> Memcpy(Zeros(64), bytes, n)]]

DATA_CAP == CAN_BUS_FRAG_WIRE_LEN - HDR_SIZE

\* FragCount without the round-up.
FragCount_Floor(len) == Max(len \div DATA_CAP, 1)

\* frag_cnt_sz of can_bus_send_large.
FragCount(len) == Max((len + DATA_CAP - 1) \div DATA_CAP, 1)

\* FragFrame that compares idx with frag_cnt for the LAST flag.
FragFrame_LastOffByOne(bytes, len, seq, idx, frag_cnt) ==
    LET off  == idx * DATA_CAP
        take == Min(len - off, DATA_CAP)
        hdr  == [magic |-> CAN_BUS_FRAG_MAGIC, seq |-> seq, frag_idx |-> idx,
                 frag_cnt |-> frag_cnt,
                 flags |-> (IF idx = 0 THEN 1 ELSE 0)
                           + (IF idx = (frag_cnt % U8) THEN 2 ELSE 0),
                 total_len |-> len % U16]
    IN  EncodeHdr(hdr) \o SubSeq(bytes, off + 1, off + take)
                       \o Zeros(CAN_BUS_FRAG_WIRE_LEN - HDR_SIZE - take)

\* The 64-byte frame can_bus_send_large builds for fragment idx: header, chunk,
\* zero padding.
FragFrame(bytes, len, seq, idx, frag_cnt) ==
    LET off  == idx * DATA_CAP
        take == Min(len - off, DATA_CAP)
        hdr  == [magic |-> CAN_BUS_FRAG_MAGIC, seq |-> seq, frag_idx |-> idx,
                 frag_cnt |-> frag_cnt,
                 flags |-> (IF idx = 0 THEN 1 ELSE 0)
                           + (IF idx = ((frag_cnt - 1) % U8) THEN 2 ELSE 0),
                 total_len |-> len % U16]
    IN  EncodeHdr(hdr) \o SubSeq(bytes, off + 1, off + take)
                       \o Zeros(CAN_BUS_FRAG_WIRE_LEN - HDR_SIZE - take)

\* can_bus_send_large that goes on with the next fragment after a driver failure.
can_bus_send_large_NoAbort(hfdcan, seq0, bytes, len, std_id, failAt) ==
    LET cnt   == FragCount(len)
        sb(i) == can_bus_send_bytes(hfdcan, FragFrame(bytes, len, seq0, i, cnt),
                                    CAN_BUS_FRAG_WIRE_LEN, std_id)
        all   == [i \in 1..cnt |-> sb(i - 1).frame]
    IN  IF hfdcan = NULL \/ len = 0 \/ len > 65535
        THEN [st |-> HAL_ERROR, frames |-> <<>>, seq |-> seq0]
        ELSE IF cnt > 255
        THEN [st |-> HAL_ERROR, frames |-> <<>>, seq |-> (seq0 + 1) % U8]
        ELSE [st |-> IF failAt >= 0 /\ failAt < cnt THEN HAL_ERROR ELSE HAL_OK,
              frames |-> SelectSeq(all, LAMBDA fr : fr.data[4] # failAt),
              seq |-> (seq0 + 1) % U8]

\* can_bus_send_large: the return status, the frames the driver accepted and the
\* new g_seq.  failAt is the index of the fragment whose driver call fails (the
\* driver's answer is an input), -1 for none.
can_bus_send_large(hfdcan, seq0, bytes, len, std_id, failAt) ==
    LET cnt   == FragCount(len)
        sb(i) == can_bus_send_bytes(hfdcan, FragFrame(bytes, len, seq0, i, cnt),
                                    CAN_BUS_FRAG_WIRE_LEN, std_id)
        last  == IF failAt >= 0 /\ failAt < cnt THEN failAt - 1 ELSE cnt - 1
    IN  IF hfdcan = NULL \/ len = 0 \/ len > 65535
        THEN [st |-> HAL_ERROR, frames |-> <<>>, seq |-> seq0]
        ELSE IF cnt > 255
        THEN [st |-> HAL_ERROR, frames |-> <<>>, seq |-> (seq0 + 1) % U8]
        ELSE [st |-> IF last = cnt - 1 THEN HAL_OK ELSE HAL_ERROR,
              frames |-> [i \in 1..(last + 1) |-> sb(i - 1).frame],
              seq |-> (seq0 + 1) % U8]

\* What the receiver's HAL reads from RX FIFO1 for a transmitted frame: the id,
\* the DLC code and the payload bytes of that DLC.
WireMsg(frame) ==
    [Identifier |-> frame.Identifier, DataLength |-> frame.DataLength,
     data |-> SubSeq(frame.data, 1, can_bus_dlc_to_len(frame.DataLength))]

-----------------------------------------------------------------------------
(* Initial state: after static initialisation and can_bus_init.             *)

NoSubs == [i \in 0..(CAN_BUS_MAX_SUBSCRIBERS - 1) |-> [cb |-> NULL, user |-> NULL]]

\* Two subscribers with a free entry between them (subscribe three, remove one).
TestSubs == [NoSubs EXCEPT ![0] = [cb |-> 1, user |-> 1], ![2] = [cb |-> 2, user |-> 0]]

NoBuf == [bytes |-> <<>>, std_id |-> 0]

NoCall == [op |-> "none", cb |-> NULL, user |-> NULL, ret |-> HAL_OK]

RingVarsInit ==
    /\ g_rx_head = 0
    /\ g_rx_tail = 0
    /\ g_rx_ring = [i \in 0..(CAN_BUS_RX_RING_DEPTH - 1) |-> ZeroFrame]
    /\ pc = "idle"
    /\ pop_t = 0
    /\ pop_out = ZeroFrame
    /\ pushCount = 0
    /\ evictCount = 0
    /\ popped = <<>>
    /\ firstPop = "none"

RxVarsInit ==
    /\ g_reasm = [i \in SlotIdx |-> FreeSlot]
    /\ wpc = "idle"
    /\ proc_now = U32Of(0)
    /\ handled = <<>>
    /\ notified = <<>>
    /\ tickSteps = 0

TxVarsInit ==
    /\ g_hfdcan = 1
    /\ g_seq = 0
    /\ txq = <<>>
    /\ txRet = "none"
    /\ txCalls = <<>>
    /\ busPos = 0

SubVarsInit ==
    /\ subCall = NoCall
    /\ subCalls = 0

NoDlcArg == [fn |-> "none", val |-> 0]
NoDlcRes == [done |-> FALSE, wire |-> 0, dlc |-> 0, len |-> 0, direct |-> 0]

NoRxCall == [done |-> FALSE, n |-> 0]

NoClk == [ticks64 |-> <<0, 0, 0, 0>>, since |-> <<0, 0, 0, 0>>, n |-> 0]

PureVarsInit ==
    /\ dlcArg = NoDlcArg
    /\ dlcRes = NoDlcRes
    /\ rxCall = NoRxCall
    /\ clk = NoClk

NoSync == [called |-> FALSE]

TimeVarsInit ==
    /\ tps = 1000
    /\ tx_time = <<0, 0>>
    /\ last_ticks32 = <<0, 0>>
    /\ high = <<0, 0, 0, 0>>
    /\ sync = NoSync
    /\ reads = <<>>
    /\ syncTicks = [total |-> 0, after |-> 0]

WorkVarsInit ==
    /\ wk = [pc |-> "queues", last_req_ms |-> <<0, 0, 0, 0>>, iters |-> 0]
    /\ g_timesync_seq = 1
    /\ reqs = <<>>
    /\ chk = [done |-> FALSE]

NoRouter == [r |-> NULL, created |-> 0, start_time |-> <<0, 0, 0, 0>>]

RouterVarsInit ==
    /\ g_router = NoRouter
    /\ g_can_rx_subscribed = 0
    /\ g_can_side_id = -1
    /\ th = <<>>
    /\ routers = <<>>
    /\ rxLog = <<>>

ExtVarsInit == PureVarsInit /\ TimeVarsInit /\ WorkVarsInit /\ RouterVarsInit

RestInit ==
    /\ RxVarsInit
    /\ TxVarsInit
    /\ SubVarsInit
    /\ ExtVarsInit
    /\ g_subs = NoSubs
    /\ tick = U32Of(0)
    /\ sendBuf = NoBuf

-----------------------------------------------------------------------------
(* Ring specification: the ISR delivers numbered test frames, the worker    *)
(* calls rb_pop in a loop.                                                   *)

\* The k-th message of the test stream: id k, one data byte k.
TestMsg(k) == [Identifier |-> k, DataLength |-> 1, data |-> <<k % 256>>]

TestFrame(k) == [std_id |-> k % 2048, len |-> 1, data |-> <<k % 256>>]

RingISR ==
    /\ pushCount < MaxPush
    /\ HAL_FDCAN_RxFifo1Callback(FDCAN_IT_RX_FIFO1_NEW_MESSAGE, TestMsg(pushCount + 1))
    /\ pushCount' = pushCount + 1
    /\ evictCount' = IF rb_is_full(g_rx_head, g_rx_tail) THEN evictCount + 1
                                                         ELSE evictCount
    /\ UNCHANGED <<popVars, popped, firstPop, restVars>>

RingInit == RingVarsInit /\ RestInit

RingNext == RingISR \/ rb_pop_step

SpecRing == RingInit /\ [][RingNext]_vars

SpecRingFair == SpecRing /\ WF_vars(rb_pop_step)

-----------------------------------------------------------------------------
(* Receive specification: the ISR receives frames of a small universe, the  *)
(* worker runs can_bus_process_rx, the clock advances.                       *)

\* Test payloads: every byte is non-zero and the two messages differ everywhere.
PayloadA == [i \in 1..150 |-> 1 + ((3 * i) % 250)]

PayloadN == [i \in 1..150 |-> 1 + ((7 * i + 11) % 250)]

\* Message A: 150 bytes on std_id 3 sent with seq 5 (three fragments).
MsgA(i) == WireMsg(can_bus_send_large(1, 5, PayloadA, 150, 3, -1).frames[i + 1])

\* Fragment 0 of message N: 150 bytes on std_id 3 sent with the earlier seq 4.
MsgN0 == WireMsg(can_bus_send_large(1, 4, PayloadN, 150, 3, -1).frames[1])

\* A frame with the fragment magic that announces one fragment of 100 bytes but
\* carries 56 payload bytes (std_id 4, seq 9).
MsgH ==
    [Identifier |-> 4, DataLength |-> 15,
     data |-> EncodeHdr([magic |-> CAN_BUS_FRAG_MAGIC, seq |-> 9, frag_idx |-> 0,
                         frag_cnt |-> 1, flags |-> 3, total_len |-> 100])
              \o [i \in 1..DATA_CAP |-> 200 + (i % 50)]]

\* Raw frames: 16 bytes 00..0F on id 0x100; 4 bytes that start with the magic.
MsgRaw16 == [Identifier |-> 256, DataLength |-> 10, data |-> [i \in 1..16 |-> i - 1]]

MsgRaw4 == [Identifier |-> 257, DataLength |-> 4, data |-> <<68, 83, 1, 2>>]

RxMsgs == {MsgA(0), MsgA(1), MsgA(2), MsgN0, MsgH, MsgRaw16, MsgRaw4}

\* 2^32 - 250: the tick wraps during a run.
TickStart == <<U16 - 1, U16 - CAN_BUS_REASM_TIMEOUT_MS>>

TickChoices == {CAN_BUS_REASM_TIMEOUT_MS, CAN_BUS_REASM_TIMEOUT_MS + 1}

\* An ISR that handles the frame itself instead of queueing it.
RxISR_Inline ==
    /\ pushCount + tickSteps < MaxEvents
    /\ \E m \in RxMsgs :
          LET f == PushSlot(ZeroFrame, m.Identifier % 2048, m.data,
                            Min(can_bus_dlc_to_len(m.DataLength), 64))
              r == handle_rx_frame(g_reasm, f, tick)
          IN  /\ g_reasm' = r.tbl
              /\ notified' = notified \o
                    (IF r.deliver = <<>> THEN <<>>
                     ELSE can_bus_notify_rx(g_subs, r.deliver[1].data,
                                            r.deliver[1].len, Len(handled) + 1))
    /\ pushCount' = pushCount + 1
    /\ UNCHANGED <<ringVars, popVars, evictCount, popped, firstPop, wpc, proc_now, handled,
                   subVars, clockVars, txVars, extVars>>

RxISR ==
    /\ pushCount + tickSteps < MaxEvents
    /\ \E m \in RxMsgs : HAL_FDCAN_RxFifo1Callback(FDCAN_IT_RX_FIFO1_NEW_MESSAGE, m)
    /\ pushCount' = pushCount + 1
    /\ evictCount' = IF rb_is_full(g_rx_head, g_rx_tail) THEN evictCount + 1
                                                         ELSE evictCount
    /\ UNCHANGED <<popVars, popped, firstPop, restVars>>

\* The clock is advanced between two runs of the worker: can_bus_process_rx reads
\* the tick once, on entry, so an advance during a run acts as one right after it.
RxTick ==
    /\ pushCount + tickSteps < MaxEvents
    /\ wpc = "idle"
    /\ \E d \in TickChoices : Tick(d)

RxInit ==
    /\ RingVarsInit
    /\ RxVarsInit
    /\ TxVarsInit
    /\ SubVarsInit
    /\ ExtVarsInit
    /\ g_subs = TestSubs
    /\ tick = TickStart
    /\ sendBuf = NoBuf

RxNext == RxISR \/ ProcessRxBegin \/ ProcessRxFrame \/ RxTick

SpecRx == RxInit /\ [][RxNext]_vars

-----------------------------------------------------------------------------
(* Round-trip specification: one can_bus_send_large call on the sending     *)
(* board; the bus hands its frames, in order, to the ISR of a freshly       *)
(* initialised receiver whose worker runs can_bus_process_rx.                *)

RtBytes(L) == [i \in 1..L |-> 1 + ((3 * i) % 250)]

\* The 150-byte message and the largest message.
RtEdgeLens == {150, CAN_BUS_REASM_MAX_BYTES}

RtLens == (1..MaxLen) \cup RtEdgeLens

\* can_bus_send_large(sendBuf); the driver accepts every frame or refuses the
\* second one.
SendCall(buf, failAt) ==
    LET r  == can_bus_send_large(g_hfdcan, g_seq, buf.bytes, Len(buf.bytes),
                                 buf.std_id, failAt)
        st == IF r.st = HAL_OK THEN "HAL_OK" ELSE "HAL_ERROR"
    IN  /\ txq' = txq \o r.frames
        /\ txRet' = st
        /\ g_seq' = r.seq
        /\ sendBuf' = buf
        /\ txCalls' = Append(txCalls, [st |-> st, failAt |-> failAt,
                                       frames |-> Len(r.frames), seq |-> g_seq,
                                       len |-> Len(buf.bytes)])
        /\ UNCHANGED <<g_hfdcan, busPos, ringVars, popVars, histVars, rxVars,
                       subVars, clockVars, extVars>>

SendLarge ==
    /\ txRet = "none"
    /\ \E failAt \in {-1, 1} : SendCall(sendBuf, failAt)

\* The receiver's RX FIFO1 interrupt for the next transmitted frame.
BusDeliver ==
    /\ busPos < Len(txq)
    /\ HAL_FDCAN_RxFifo1Callback(FDCAN_IT_RX_FIFO1_NEW_MESSAGE, WireMsg(txq[busPos + 1]))
    /\ busPos' = busPos + 1
    /\ pushCount' = pushCount + 1
    /\ evictCount' = IF rb_is_full(g_rx_head, g_rx_tail) THEN evictCount + 1
                                                         ELSE evictCount
    /\ UNCHANGED <<popVars, popped, firstPop, rxVars, subVars, clockVars, extVars, g_hfdcan,
                   g_seq, txq, txRet, sendBuf, txCalls>>

RtInit ==
    /\ RingVarsInit
    /\ RxVarsInit
    /\ SubVarsInit
    /\ ExtVarsInit
    /\ g_subs = TestSubs
    /\ tick = U32Of(0)
    /\ g_hfdcan = 1
    /\ g_seq \in {0, U8 - 1}
    /\ txq = <<>>
    /\ txRet = "none"
    /\ txCalls = <<>>
    /\ busPos = 0
    /\ sendBuf \in {[bytes |-> RtBytes(L), std_id |-> 3] : L \in RtLens}

RtNext == SendLarge \/ BusDeliver \/ ProcessRxBegin \/ ProcessRxFrame

SpecRoundTrip == RtInit /\ [][RtNext]_vars

-----------------------------------------------------------------------------
(* Send specification: one can_bus_send_large call, before or after         *)
(* can_bus_init, for buffers up to and beyond the limits of the call.        *)

\* The largest buffer that gives 255 fragments, the first that gives 256, and
\* the limits of the 16-bit total_len.
SendEdgeLens == {150, CAN_BUS_REASM_MAX_BYTES, 255 * DATA_CAP, 255 * DATA_CAP + 1,
                 U16 - 1, U16}

SendLens == (0..MaxSendLen) \cup SendEdgeLens

SendInit ==
    /\ RingVarsInit
    /\ RxVarsInit
    /\ SubVarsInit
    /\ ExtVarsInit
    /\ g_subs = NoSubs
    /\ tick = U32Of(0)
    /\ g_hfdcan \in {NULL, 1}
    /\ g_seq \in {0, U8 - 1}
    /\ txq = <<>>
    /\ txRet = "none"
    /\ txCalls = <<>>
    /\ busPos = 0
    /\ sendBuf \in {[bytes |-> RtBytes(L), std_id |-> 3] : L \in SendLens}

SendNext == SendLarge

SpecSend == SendInit /\ [][SendNext]_vars

-----------------------------------------------------------------------------
(* Abort specification: a can_bus_send_large call whose driver refuses one  *)
(* fragment, followed by further calls on the same id; the receiver gets    *)
(* the accepted frames and its clock advances.                               *)

NextBytes(L) == [i \in 1..L |-> 1 + ((7 * i + 11) % 250)]

\* Two and three fragments.
AbortLens == {DATA_CAP + 1, 150}

\* One and three fragments.
NextLens == {1, 150}

AbortSend ==
    /\ txRet = "none"
    /\ \E failAt \in 0..2 : SendCall(sendBuf, failAt)

Resend ==
    /\ txRet # "none"
    /\ Len(txCalls) < MaxSends
    /\ \E L \in NextLens :
          SendCall([bytes |-> NextBytes(L), std_id |-> sendBuf.std_id], -1)

AbortTick ==
    /\ tickSteps < MaxTicks
    /\ wpc = "idle"
    /\ \E d \in TickChoices : Tick(d)

AbortInit ==
    /\ RingVarsInit
    /\ RxVarsInit
    /\ SubVarsInit
    /\ ExtVarsInit
    /\ g_subs = TestSubs
    /\ tick = TickStart
    /\ g_hfdcan = 1
    /\ g_seq \in {0, U8 - 1}
    /\ txq = <<>>
    /\ txRet = "none"
    /\ txCalls = <<>>
    /\ busPos = 0
    /\ sendBuf \in {[bytes |-> RtBytes(L), std_id |-> 3] : L \in AbortLens}

AbortNext ==
    AbortSend \/ Resend \/ BusDeliver \/ ProcessRxBegin \/ ProcessRxFrame \/ AbortTick

SpecAbort == AbortInit /\ [][AbortNext]_vars

-----------------------------------------------------------------------------
(* Registry specification: the application calls can_bus_subscribe_rx and   *)
(* can_bus_unsubscribe_rx.                                                   *)

CbSet == {NULL, 1, 2, 3}

UserSet == {NULL, 1, 2}

\* The subscriptions the application makes at start-up, in order.
SubOrder == <<<<1, 0>>, <<1, 1>>, <<1, 2>>, <<2, 0>>, <<2, 1>>, <<2, 2>>, <<3, 0>>, <<3, 1>>>>

\* The table after the first k of them.
RECURSIVE Subscribed(_)
Subscribed(k) ==
    IF k = 0 THEN NoSubs
    ELSE can_bus_subscribe_rx(Subscribed(k - 1), SubOrder[k][1], SubOrder[k][2]).subs

Subscribe ==
    /\ subCalls < MaxCalls
    /\ \E cb \in CbSet, user \in UserSet :
          LET r == can_bus_subscribe_rx(g_subs, cb, user)
          IN  /\ g_subs' = r.subs
              /\ subCall' = [op |-> "subscribe", cb |-> cb, user |-> user, ret |-> r.ret]
    /\ subCalls' = subCalls + 1
    /\ UNCHANGED <<ringVars, popVars, histVars, rxVars, clockVars, txVars, extVars>>

Unsubscribe ==
    /\ subCalls < MaxCalls
    /\ \E cb \in CbSet, user \in UserSet :
          LET r == can_bus_unsubscribe_rx(g_subs, cb, user)
          IN  /\ g_subs' = r.subs
              /\ subCall' = [op |-> "unsubscribe", cb |-> cb, user |-> user,
                             ret |-> r.ret]
    /\ subCalls' = subCalls + 1
    /\ UNCHANGED <<ringVars, popVars, histVars, rxVars, clockVars, txVars, extVars>>

SubsInit ==
    /\ RingVarsInit
    /\ RxVarsInit
    /\ TxVarsInit
    /\ SubVarsInit
    /\ ExtVarsInit
    /\ tick = U32Of(0)
    /\ sendBuf = NoBuf
    /\ \E k \in 0..CAN_BUS_MAX_SUBSCRIBERS : g_subs = Subscribed(k)

SubsNext == Subscribe \/ Unsubscribe

SpecSubs == SubsInit /\ [][SubsNext]_vars

-----------------------------------------------------------------------------
(* The length conversions as pure functions: one call per behaviour *)

DlcCodes == 0..15

\* can_bus_dlc_to_len(d), and the code can_bus_len_to_dlc gives that length back.
DlcToLen ==
    /\ dlcArg.fn = "dlc_to_len"
    /\ ~dlcRes.done
    /\ LET wire == can_bus_dlc_to_len(dlcArg.val)
       IN  dlcRes' = [done |-> TRUE, wire |-> wire, dlc |-> can_bus_len_to_dlc(wire),
                      len |-> wire, direct |-> can_bus_len_to_dlc(wire)]
    /\ UNCHANGED <<dlcArg, rxCall, clk, canVars, timeVars, workVars, routerVars>>

\* can_bus_len_to_dlc(L) on the length as given.
LenToDlc ==
    /\ dlcArg.fn = "len_to_dlc"
    /\ ~dlcRes.done
    /\ LET dlc == can_bus_len_to_dlc(dlcArg.val)
       IN  dlcRes' = [done |-> TRUE, wire |-> dlcArg.val, dlc |-> dlc,
                      len |-> IF dlc = DLC_INVALID THEN 0 ELSE can_bus_dlc_to_len(dlc),
                      direct |-> dlc]
    /\ UNCHANGED <<dlcArg, rxCall, clk, canVars, timeVars, workVars, routerVars>>

\* The length handling of can_bus_send_bytes (clamp, round up, encode) and the
\* receiving ISR's decoding of the resulting DataLength.
WireLen ==
    /\ dlcArg.fn = "send_bytes"
    /\ ~dlcRes.done
    /\ LET n    == Min(dlcArg.val, 64)
           wire == can_bus_round_up_fd_len(n)
           dlc  == can_bus_len_to_dlc(wire)
       IN  dlcRes' = [done |-> TRUE, wire |-> wire, dlc |-> dlc,
                      len |-> IF dlc = DLC_INVALID THEN 0 ELSE can_bus_dlc_to_len(dlc),
                      direct |-> can_bus_len_to_dlc(dlcArg.val)]
    /\ UNCHANGED <<dlcArg, rxCall, clk, canVars, timeVars, workVars, routerVars>>

DlcArgs ==
    {[fn |-> "dlc_to_len", val |-> d] : d \in DlcCodes}
        \cup {[fn |-> f, val |-> L] : f \in {"len_to_dlc", "send_bytes"}, L \in 0..MaxDlcLen}

DlcInit ==
    /\ RingVarsInit
    /\ RxVarsInit
    /\ TxVarsInit
    /\ SubVarsInit
    /\ g_subs = NoSubs
    /\ tick = U32Of(0)
    /\ sendBuf = NoBuf
    /\ dlcArg \in DlcArgs
    /\ dlcRes = NoDlcRes
    /\ rxCall = NoRxCall
    /\ clk = NoClk
    /\ TimeVarsInit
    /\ WorkVarsInit
    /\ RouterVarsInit

DlcNext == DlcToLen \/ LenToDlc \/ WireLen

SpecDlc == DlcInit /\ [][DlcNext]_vars

-----------------------------------------------------------------------------
(* ThreadX clock helpers and the time-sync client (telemetry.c) *)

I64_MAX == <<32767, 65535, 65535, 65535>>
I64_MIN == <<32768, 0, 0, 0>>

\* tx_raw_now_ms that also takes an unchanged counter for a wrap.
tx_raw_now_ms_WrapOnEqual(cur32, last, hi, tpsv) ==
    LET hi2     == IF ~LimbULt(last, cur32) THEN LimbAdd(hi, <<0, 1, 0, 0>>, 0) ELSE hi
        ticks64 == <<hi2[1], hi2[2], cur32[1], cur32[2]>>
    IN  [ms   |-> LimbDivSmall(LimbMulSmall(ticks64, 1000, 0), tpsv, 0),
         last |-> cur32,
         high |-> hi2]

\* tx_raw_now_ms: the 32->64 extender and the ticks -> ms conversion.  high
\* only ever grows by 2^32 from 0, so high | cur32 is the concatenation.
tx_raw_now_ms(cur32, last, hi, tpsv) ==
    LET hi2     == IF LimbULt(cur32, last) THEN LimbAdd(hi, <<0, 1, 0, 0>>, 0) ELSE hi
        ticks64 == <<hi2[1], hi2[2], cur32[1], cur32[2]>>
    IN  [ms   |-> LimbDivSmall(LimbMulSmall(ticks64, 1000, 0), tpsv, 0),
         last |-> cur32,
         high |-> hi2]

\* A signed 64-bit addition that overflows is undefined: the build may wrap
\* or saturate.
I64AddOutcomes(x, y) ==
    LET w == LimbAdd(x, y, 0)
    IN  IF LimbIsNeg(x) = LimbIsNeg(y) /\ LimbIsNeg(w) # LimbIsNeg(x)
        THEN {w, IF LimbIsNeg(x) THEN I64_MIN ELSE I64_MAX}
        ELSE {w}

I64SubOutcomes(x, y) ==
    LET w == LimbSub(x, y)
    IN  IF LimbIsNeg(x) # LimbIsNeg(y) /\ LimbIsNeg(w) # LimbIsNeg(x)
        THEN {w, IF LimbIsNeg(x) THEN I64_MIN ELSE I64_MAX}
        ELSE {w}

\* compute_offset_delay: the set of (offset, delay) pairs the call can produce.
compute_offset_delay(t1, t2, t3, t4) ==
    {[offset_ms |-> LimbDiv2(o2),
      delay_ms  |-> IF LimbIsNeg(d) THEN Zeros(4) ELSE d] :
        o2 \in I64AddOutcomes(LimbSub(t2, t1), LimbSub(t3, t4)),
        d  \in I64SubOutcomes(LimbSub(t4, t1), LimbSub(t3, t2))}

\* threadx_apply_offset_ms with the sanity range widened to +-2000 s.
threadx_apply_offset_ms_WideClamp(offset_ms, cur, tpsv) ==
    IF ~LimbFitsInt(offset_ms) \/ LimbToInt(offset_ms) > 2000000 \/ LimbToInt(offset_ms) < -2000000
    THEN [set |-> FALSE, ticks |-> cur]
    ELSE LET delta_ticks == TruncDiv(LimbToInt(offset_ms) * tpsv, 1000)
             new_ticks   == LimbAdd(ZeroExt(cur, 4), LimbOfInt(delta_ticks, 4), 0)
         IN  [set |-> TRUE,
              ticks |-> IF LimbIsNeg(new_ticks) THEN <<0, 0>> ELSE Trunc(new_ticks, 2)]

\* threadx_apply_offset_ms without the clamp of new_ticks to 0.
threadx_apply_offset_ms_NoClamp(offset_ms, cur, tpsv) ==
    IF LimbSLt(LimbOfInt(30 * 1000, 4), offset_ms) \/ LimbSLt(offset_ms, LimbOfInt(-(30 * 1000), 4))
    THEN [set |-> FALSE, ticks |-> cur]
    ELSE LET delta_ticks == TruncDiv(LimbToInt(offset_ms) * tpsv, 1000)
             new_ticks   == LimbAdd(ZeroExt(cur, 4), LimbOfInt(delta_ticks, 4), 0)
         IN  [set |-> TRUE, ticks |-> Trunc(new_ticks, 2)]

\* threadx_apply_offset_ms: whether tx_time_set is called, and with which value.
threadx_apply_offset_ms(offset_ms, cur, tpsv) ==
    IF LimbSLt(LimbOfInt(30 * 1000, 4), offset_ms) \/ LimbSLt(offset_ms, LimbOfInt(-(30 * 1000), 4))
    THEN [set |-> FALSE, ticks |-> cur]
    ELSE LET delta_ticks == TruncDiv(LimbToInt(offset_ms) * tpsv, 1000)
             new_ticks   == LimbAdd(ZeroExt(cur, 4), LimbOfInt(delta_ticks, 4), 0)
         IN  [set |-> TRUE,
              ticks |-> IF LimbIsNeg(new_ticks) THEN <<0, 0>> ELSE Trunc(new_ticks, 2)]

\* on_timesync for the packet pkt = [payload, ty, payload_len, t1, t2, t3]; the
\* payload words are resp[1..3].  out is the result of compute_offset_delay.
on_timesync(pkt, out) ==
    IF pkt.payload = NULL
    THEN /\ sync' = [called |-> TRUE, pkt |-> pkt, computed |-> FALSE, set |-> FALSE,
                     cur |-> tx_time, ret |-> "SEDS_ERR"]
         /\ UNCHANGED <<tx_time, last_ticks32, high>>
    ELSE IF pkt.ty = "TIME_SYNC_RESPONSE" /\ pkt.payload_len >= 32
    THEN LET now == tx_raw_now_ms(tx_time, last_ticks32, high, tps)
             set == threadx_apply_offset_ms(out.offset_ms, tx_time, tps)
         IN  /\ last_ticks32' = now.last
             /\ high' = now.high
             /\ tx_time' = set.ticks
             /\ sync' = [called |-> TRUE, pkt |-> pkt, computed |-> TRUE, t4 |-> now.ms,
                         offset_ms |-> out.offset_ms, delay_ms |-> out.delay_ms,
                         set |-> set.set, cur |-> tx_time, ret |-> "SEDS_OK"]
    ELSE /\ sync' = [called |-> TRUE, pkt |-> pkt, computed |-> FALSE, set |-> FALSE,
                     cur |-> tx_time, ret |-> "SEDS_OK"]
         /\ UNCHANGED <<tx_time, last_ticks32, high>>

U64Of(v) == LimbOfInt(v, 4)

\* Timestamps a reply can carry.
SyncTimes == {U64Of(0), U64Of(10000), U64Of(10100), U64Of(10110), U64Of(50000), I64_MAX}

\* The last packet is a reply to a request sent at 2^32 - 136 ms, answered at
\* 2^32 + 4 ms.
SyncPkts ==
    {[payload |-> 1, ty |-> "TIME_SYNC_RESPONSE", payload_len |-> 32,
      t1 |-> a, t2 |-> b, t3 |-> c] : a \in SyncTimes, b \in SyncTimes, c \in SyncTimes}
    \cup {[payload |-> 1, ty |-> ty, payload_len |-> n,
           t1 |-> U64Of(10000), t2 |-> U64Of(10100), t3 |-> U64Of(10110)] :
             ty \in {"TIME_SYNC_RESPONSE", "TIME_SYNC_REQUEST"}, n \in {16, 31, 32, 40}}
    \cup {[payload |-> NULL, ty |-> "TIME_SYNC_RESPONSE", payload_len |-> 32,
           t1 |-> U64Of(10000), t2 |-> U64Of(10100), t3 |-> U64Of(10110)]}
    \cup {[payload |-> 1, ty |-> "TIME_SYNC_RESPONSE", payload_len |-> 32,
           t1 |-> <<0, 0, U16 - 1, U16 - 136>>, t2 |-> <<0, 1, 0, 4>>,
           t3 |-> <<0, 1, 0, 4>>]}

\* The router delivers a packet to the TIME_SYNC endpoint.
OnTimesync ==
    /\ ~sync.called
    /\ \E pkt \in SyncPkts :
         \E out \in compute_offset_delay(pkt.t1, pkt.t2, pkt.t3,
                        tx_raw_now_ms(tx_time, last_ticks32, high, tps).ms) :
            on_timesync(pkt, out)
    /\ UNCHANGED <<tps, reads, syncTicks, pureVars, canVars, workVars, routerVars>>

\* A tx_raw_now_ms call outside the handler (node_now_since_ms, a request).
ReadClock ==
    /\ Len(reads) < MaxReads
    /\ LET now == tx_raw_now_ms(tx_time, last_ticks32, high, tps)
       IN  /\ last_ticks32' = now.last
           /\ high' = now.high
           /\ reads' = Append(reads, [ms |-> now.ms, ticks |-> tx_time,
                                      after |-> sync.called, since |-> syncTicks.after])
    /\ UNCHANGED <<tps, tx_time, sync, syncTicks, pureVars, canVars, workVars, routerVars>>

\* The ThreadX timer interrupt.
ClockTick ==
    /\ syncTicks.total < MaxClockTicks
    /\ tx_time' = LimbAdd(tx_time, <<0, 1>>, 0)
    /\ syncTicks' = [total |-> syncTicks.total + 1,
                     after |-> syncTicks.after + (IF sync.called THEN 1 ELSE 0)]
    /\ UNCHANGED <<tps, last_ticks32, high, sync, reads, pureVars, canVars, workVars,
                   routerVars>>

TpsChoices == {100, 1000}

\* Tick counts at which the reply arrives: 10020 ms after boot at either tick
\* rate, and 36 ticks before the 32-bit counter wraps.
TickStarts == {<<0, 1002>>, <<0, 10020>>, <<65535, 65500>>}

SyncInit ==
    /\ RingVarsInit
    /\ RxVarsInit
    /\ TxVarsInit
    /\ SubVarsInit
    /\ g_subs = NoSubs
    /\ tick = U32Of(0)
    /\ sendBuf = NoBuf
    /\ PureVarsInit
    /\ tps \in TpsChoices
    /\ tx_time \in TickStarts
    /\ last_ticks32 = <<0, 0>>
    /\ high = <<0, 0, 0, 0>>
    /\ sync = NoSync
    /\ reads = <<>>
    /\ syncTicks = [total |-> 0, after |-> 0]
    /\ WorkVarsInit
    /\ RouterVarsInit

SyncNext == OnTimesync \/ ReadClock \/ ClockTick

SpecSync == SyncInit /\ [][SyncNext]_vars

-----------------------------------------------------------------------------
(* The telemetry thread's loop (telemetry.c, telemetry_thread_entry) *)

TIMESYNC_REQUEST_PERIOD_MS == 2000

\* tx_now_ms: the worker's millisecond clock, the 32-bit tick counter converted.
tx_now_ms(cur32, tpsv) == LimbDivSmall(LimbMulSmall(ZeroExt(cur32, 4), 1000, 0), tpsv, 0)

\* (uint64_t)(now_ms - last_req_ms) >= (uint64_t)TIMESYNC_REQUEST_PERIOD_MS
PeriodElapsed(now_ms, last_req_ms) ==
    ~LimbULt(LimbSub(now_ms, last_req_ms), U64Of(TIMESYNC_REQUEST_PERIOD_MS))

\* Replies the master can send: one that moves the clock forwards and one
\* that moves it backwards.
WorkerPkts ==
    {[payload |-> 1, ty |-> "TIME_SYNC_RESPONSE", payload_len |-> 32,
      t1 |-> U64Of(10000), t2 |-> U64Of(10100), t3 |-> U64Of(10110)],
     [payload |-> 1, ty |-> "TIME_SYNC_RESPONSE", payload_len |-> 32,
      t1 |-> U64Of(0), t2 |-> U64Of(0), t3 |-> U64Of(0)]}

\* can_bus_process_rx(); process_all_queues_timeout(5); can_bus_process_rx()
\* with an empty CAN ring: the router either has nothing for the TIME_SYNC
\* endpoint or delivers one reply to on_timesync.
WorkerQueues ==
    /\ wk.pc = "queues"
    /\ wk.iters < MaxIters
    /\ wk' = [wk EXCEPT !.pc = "check", !.iters = @ + 1]
    /\ \/ UNCHANGED <<tx_time, last_ticks32, high, sync>>
       \/ /\ ~sync.called
          /\ \E pkt \in WorkerPkts :
               \E out \in compute_offset_delay(pkt.t1, pkt.t2, pkt.t3,
                              tx_raw_now_ms(tx_time, last_ticks32, high, tps).ms) :
                  on_timesync(pkt, out)
    /\ UNCHANGED <<tps, reads, syncTicks, g_timesync_seq, reqs, chk, pureVars, canVars,
                   routerVars>>

\* The period check of the loop and, when it is due, telemetry_timesync_request
\* (the router exists: g_router.r is not NULL).
WorkerCheck ==
    /\ wk.pc = "check"
    /\ g_router.r # NULL
    /\ LET now_ms == tx_now_ms(tx_time, tps)
           due    == PeriodElapsed(now_ms, wk.last_req_ms)
           t1     == tx_raw_now_ms(tx_time, last_ticks32, high, tps)
       IN  /\ chk' = [done |-> TRUE, now_ms |-> now_ms, last |-> wk.last_req_ms,
                      issued |-> due, first |-> (reqs = <<>>)]
           /\ IF due
              THEN /\ reqs' = Append(reqs, [seq |-> g_timesync_seq, t1 |-> t1.ms,
                                            now_ms |-> now_ms])
                   /\ g_timesync_seq' = g_timesync_seq + 1
                   /\ last_ticks32' = t1.last
                   /\ high' = t1.high
                   /\ wk' = [wk EXCEPT !.pc = "sleep", !.last_req_ms = now_ms]
              ELSE /\ wk' = [wk EXCEPT !.pc = "sleep"]
                   /\ UNCHANGED <<reqs, g_timesync_seq, last_ticks32, high>>
    /\ UNCHANGED <<tps, tx_time, sync, reads, syncTicks, pureVars, canVars, routerVars>>

\* Tick counts a loop iteration can take: one tick, half a second, or just
\* under a second when other threads run.
SleepTicks == {1, tps \div 2, tps - 1}

\* tx_thread_sleep(1)
WorkerSleep ==
    /\ wk.pc = "sleep"
    /\ \E d \in SleepTicks : tx_time' = LimbAdd(tx_time, <<0, d>>, 0)
    /\ wk' = [wk EXCEPT !.pc = "queues"]
    /\ UNCHANGED <<tps, last_ticks32, high, sync, reads, syncTicks, g_timesync_seq, reqs,
                   chk, pureVars, canVars, routerVars>>

\* The thread has started: init_telemetry_router (telemetry.c:1069) created
\* the router, last_req_ms is 0 and the tick counter is at boot.
WorkerInit ==
    /\ RingVarsInit
    /\ RxVarsInit
    /\ TxVarsInit
    /\ SubVarsInit
    /\ g_subs = NoSubs
    /\ tick = U32Of(0)
    /\ sendBuf = NoBuf
    /\ PureVarsInit
    /\ tps \in TpsChoices
    /\ tx_time = <<0, 0>>
    /\ last_ticks32 = <<0, 0>>
    /\ high = <<0, 0, 0, 0>>
    /\ sync = NoSync
    /\ reads = <<>>
    /\ syncTicks = [total |-> 0, after |-> 0]
    /\ WorkVarsInit
    /\ g_router = [r |-> 1, created |-> 1, start_time |-> <<0, 0, 0, 0>>]
    /\ g_can_rx_subscribed = 1
    /\ g_can_side_id = 0
    /\ th = <<>>
    /\ routers = <<0>>
    /\ rxLog = <<>>

WorkerNext == WorkerQueues \/ WorkerCheck \/ WorkerSleep

SpecWorker == WorkerInit /\ [][WorkerNext]_vars

-----------------------------------------------------------------------------
(* Router creation (telemetry.c, init_telemetry_router and its callers) *)

telemetry_can_rx == 7                  \* the callback's address, distinct from SubOrder's

Threads == {"worker", "app"}

\* The entry points: init_telemetry_router itself, a logging function,
\* rx_asynchronous and a queue-processing function.
RouterOps == {"init", "log", "rx", "queues"}

\* What seds_router_add_side_serialized can return: an error or a side id.
SideResults == {-2, 0, 1}

IdleThread == [pc |-> "idle", op |-> "none", r |-> NULL, ret |-> "none", calls |-> 0]

\* The variables no router step writes.
RouterFrame ==
    UNCHANGED <<pureVars, workVars, ringVars, popVars, histVars, rxVars, clockVars, txVars,
                subCall, subCalls, tps, tx_time, sync, reads, syncTicks>>

\* init_telemetry_router returns ret to its caller: the entry points other
\* than init go on to use the router when it returned SEDS_OK.
Returned(t, ret) ==
    IF th[t].op # "init" /\ ret = "SEDS_OK"
    THEN [th[t] EXCEPT !.pc = "use", !.ret = ret]
    ELSE [th[t] EXCEPT !.pc = "idle", !.ret = ret, !.calls = @ + 1]

\* A thread enters one of the entry points.
BeginCall(t, op) ==
    /\ th[t].pc = "idle"
    /\ th[t].calls < MaxThreadCalls
    /\ th' = [th EXCEPT ![t] = [@ EXCEPT !.pc = IF op = "init" THEN "init_check" ELSE "entry",
                                        !.op = op, !.r = NULL, !.ret = "none"]]
    /\ UNCHANGED <<g_subs, last_ticks32, high, g_router, g_can_rx_subscribed, g_can_side_id,
                   routers, rxLog>>
    /\ RouterFrame

Call == \E t \in Threads, op \in RouterOps : BeginCall(t, op)

\* The same, when no other call is in progress.
CallAlone ==
    /\ \A u \in Threads : th[u].pc = "idle"
    /\ \E t \in Threads, op \in RouterOps : BeginCall(t, op)

\* if (!g_router.r) { if (init_telemetry_router() != SEDS_OK) return ...; }
Entry ==
    \E t \in Threads :
      /\ th[t].pc = "entry"
      /\ th' = [th EXCEPT ![t].pc = IF g_router.r # NULL THEN "use" ELSE "init_check"]
      /\ UNCHANGED <<g_subs, last_ticks32, high, g_router, g_can_rx_subscribed,
                     g_can_side_id, routers, rxLog>>
      /\ RouterFrame

\* telemetry.c:716-718
InitCheck ==
    \E t \in Threads :
      /\ th[t].pc = "init_check"
      /\ th' = [th EXCEPT ![t] = IF g_router.created # 0 /\ g_router.r # NULL
                                 THEN Returned(t, "SEDS_OK")
                                 ELSE [@ EXCEPT !.pc = "sub_check"]]
      /\ UNCHANGED <<g_subs, last_ticks32, high, g_router, g_can_rx_subscribed,
                     g_can_side_id, routers, rxLog>>
      /\ RouterFrame

\* telemetry.c:721
SubCheck ==
    \E t \in Threads :
      /\ th[t].pc = "sub_check"
      /\ th' = [th EXCEPT ![t].pc = IF g_can_rx_subscribed = 0 THEN "subscribe" ELSE "new"]
      /\ UNCHANGED <<g_subs, last_ticks32, high, g_router, g_can_rx_subscribed,
                     g_can_side_id, routers, rxLog>>
      /\ RouterFrame

\* telemetry.c:722
SubscribeCanRx ==
    \E t \in Threads :
      /\ th[t].pc = "subscribe"
      /\ LET res == can_bus_subscribe_rx(g_subs, telemetry_can_rx, NULL)
         IN  /\ g_subs' = res.subs
             /\ th' = [th EXCEPT ![t].pc = IF res.ret = HAL_OK THEN "sub_set" ELSE "new"]
      /\ UNCHANGED <<last_ticks32, high, g_router, g_can_rx_subscribed, g_can_side_id,
                     routers, rxLog>>
      /\ RouterFrame

\* telemetry.c:723
SubSet ==
    \E t \in Threads :
      /\ th[t].pc = "sub_set"
      /\ g_can_rx_subscribed' = 1
      /\ th' = [th EXCEPT ![t].pc = "new"]
      /\ UNCHANGED <<g_subs, last_ticks32, high, g_router, g_can_side_id, routers, rxLog>>
      /\ RouterFrame

\* telemetry.c:749-750: seds_router_new returns a new router or NULL.
RouterNew ==
    \E t \in Threads :
      /\ th[t].pc = "new"
      /\ \/ /\ routers' = Append(routers, [added |-> FALSE, side |-> -1])
            /\ th' = [th EXCEPT ![t] = [@ EXCEPT !.pc = "add_side", !.r = Len(routers) + 1]]
         \/ /\ th' = [th EXCEPT ![t] = [@ EXCEPT !.pc = "fail", !.r = NULL]]
            /\ UNCHANGED routers
      /\ UNCHANGED <<g_subs, last_ticks32, high, g_router, g_can_rx_subscribed,
                     g_can_side_id, rxLog>>
      /\ RouterFrame

\* telemetry.c:752-758
RouterNewFailed ==
    \E t \in Threads :
      /\ th[t].pc = "fail"
      /\ g_router' = [g_router EXCEPT !.r = NULL, !.created = 0]
      /\ g_can_side_id' = -1
      /\ th' = [th EXCEPT ![t] = Returned(t, "SEDS_ERR")]
      /\ UNCHANGED <<g_subs, last_ticks32, high, g_can_rx_subscribed, routers, rxLog>>
      /\ RouterFrame

\* telemetry.c:762-764
AddSide ==
    \E t \in Threads :
      /\ th[t].pc = "add_side"
      /\ \E id \in SideResults :
            /\ g_can_side_id' = id
            /\ routers' = [routers EXCEPT ![th[t].r] = [added |-> TRUE, side |-> id]]
      /\ th' = [th EXCEPT ![t].pc = "side_fix"]
      /\ UNCHANGED <<g_subs, last_ticks32, high, g_router, g_can_rx_subscribed, rxLog>>
      /\ RouterFrame

\* SideFix that keeps the error code.
SideFix_Keep(id) == id

\* telemetry.c:766-771
SideFix(id) == IF id < 0 THEN -1 ELSE id

SideCheck ==
    \E t \in Threads :
      /\ th[t].pc = "side_fix"
      /\ g_can_side_id' = SideFix(g_can_side_id)
      /\ th' = [th EXCEPT ![t].pc = "publish"]
      /\ UNCHANGED <<g_subs, last_ticks32, high, g_router, g_can_rx_subscribed, routers,
                     rxLog>>
      /\ RouterFrame

\* telemetry.c:773-777
Publish ==
    \E t \in Threads :
      /\ th[t].pc = "publish"
      /\ LET now == tx_raw_now_ms(tx_time, last_ticks32, high, tps)
         IN  /\ g_router' = [r |-> th[t].r, created |-> 1, start_time |-> now.ms]
             /\ last_ticks32' = now.last
             /\ high' = now.high
      /\ th' = [th EXCEPT ![t] = Returned(t, "SEDS_OK")]
      /\ UNCHANGED <<g_subs, g_can_rx_subscribed, g_can_side_id, routers, rxLog>>
      /\ RouterFrame

\* The entry point hands its work to g_router.r; rx_asynchronous chooses the
\* tagged or the untagged entry point of the router (telemetry.c:642-647).
UseRouter ==
    \E t \in Threads :
      /\ th[t].pc = "use"
      /\ rxLog' = IF th[t].op = "rx"
                  THEN Append(rxLog, [r |-> g_router.r, tagged |-> (g_can_side_id >= 0),
                                      side |-> g_can_side_id])
                  ELSE rxLog
      /\ th' = [th EXCEPT ![t] = [@ EXCEPT !.pc = "idle", !.calls = @ + 1]]
      /\ UNCHANGED <<g_subs, last_ticks32, high, g_router, g_can_rx_subscribed,
                     g_can_side_id, routers>>
      /\ RouterFrame

\* Boot: no router, nothing subscribed by telemetry; the subscriber table is
\* empty or already filled by other modules.
RouterInit ==
    /\ RingVarsInit
    /\ RxVarsInit
    /\ TxVarsInit
    /\ SubVarsInit
    /\ g_subs \in {NoSubs, Subscribed(CAN_BUS_MAX_SUBSCRIBERS)}
    /\ tick = U32Of(0)
    /\ sendBuf = NoBuf
    /\ PureVarsInit
    /\ TimeVarsInit
    /\ WorkVarsInit
    /\ g_router = NoRouter
    /\ g_can_rx_subscribed = 0
    /\ g_can_side_id = -1
    /\ th = [t \in Threads |-> IdleThread]
    /\ routers = <<>>
    /\ rxLog = <<>>

RouterSteps ==
    \/ Entry \/ InitCheck \/ SubCheck \/ SubscribeCanRx \/ SubSet \/ RouterNew
    \/ RouterNewFailed \/ AddSide \/ SideCheck \/ Publish \/ UseRouter

\* Calls from both threads, interleaved at every access to shared state.
RouterNext == Call \/ RouterSteps

SpecRouter == RouterInit /\ [][RouterNext]_vars

\* Calls from both threads, one at a time.
RouterSeqNext == CallAlone \/ RouterSteps

SpecRouterSeq == RouterInit /\ [][RouterSeqNext]_vars

-----------------------------------------------------------------------------
(* Error logging (telemetry.c, log_error_asyncronous and                    *)
(* log_error_syncronous).  A formatted message is represented by its         *)
(* untruncated length n; n < 0 stands for a format vsnprintf fails on.       *)

\* telemetry.c:940-942: the cap on the measured length.
ERROR_LOG_MAX == 512

\* C vsnprintf(buf, size, fmt, args) for a message of n characters: it
\* returns n whatever the size, and stores min(n, size - 1) characters and a
\* terminating NUL when size > 0.  A failing format returns a negative value.
vsnprintf(size, n) ==
    IF n < 0 THEN [ret |-> -1, stored |-> 0]
    ELSE [ret |-> n, stored |-> IF size = 0 THEN 0 ELSE Min(n, size - 1)]

\* The body shared by both functions after the router check: the arguments
\* of the seds_router_log_string_ex call, with the size of the buffer given
\* and the number of characters it holds.
log_error(n, queue) ==
    LET len == vsnprintf(0, n).ret
        empty == [len |-> 0, size |-> 1, stored |-> 0, queue |-> queue]
    IN  IF len < 0 THEN empty
        ELSE LET capped  == IF len > ERROR_LOG_MAX THEN ERROR_LOG_MAX ELSE len
                 written == vsnprintf(capped + 1, n)
             IN  IF written.ret < 0 THEN empty
                 ELSE [len |-> written.ret, size |-> capped + 1,
                       stored |-> written.stored, queue |-> queue]

LogFrame ==
    UNCHANGED <<g_subs, g_router, g_can_rx_subscribed, g_can_side_id, th, routers,
                pureVars, timeVars, workVars, ringVars, popVars, histVars, rxVars,
                clockVars, txVars, subCall, subCalls>>

\* telemetry.c:914-957, called when the router exists.
log_error_asyncronous(n) ==
    /\ g_router.r # NULL
    /\ rxLog = <<>>
    /\ rxLog' = <<[fn |-> "log_error_asyncronous", r |-> g_router.r, n |-> n]
                      @@ log_error(n, 1)>>
    /\ LogFrame

\* telemetry.c:959-1002, called when the router exists.
log_error_syncronous(n) ==
    /\ g_router.r # NULL
    /\ rxLog = <<>>
    /\ rxLog' = <<[fn |-> "log_error_syncronous", r |-> g_router.r, n |-> n]
                      @@ log_error(n, 0)>>
    /\ LogFrame

LogInit ==
    /\ RingVarsInit
    /\ RxVarsInit
    /\ TxVarsInit
    /\ SubVarsInit
    /\ g_subs = NoSubs
    /\ tick = U32Of(0)
    /\ sendBuf = NoBuf
    /\ PureVarsInit
    /\ TimeVarsInit
    /\ WorkVarsInit
    /\ g_router = [r |-> 1, created |-> 1, start_time |-> <<0, 0, 0, 0>>]
    /\ g_can_rx_subscribed = 1
    /\ g_can_side_id = 0
    /\ th = <<>>
    /\ routers = <<[added |-> TRUE, side |-> 0]>>
    /\ rxLog = <<>>

LogNext ==
    \/ \E n \in -1..MaxMsgLen : log_error_asyncronous(n)
    \/ \E n \in -1..MaxMsgLen : log_error_syncronous(n)

SpecLog == LogInit /\ [][LogNext]_vars

-----------------------------------------------------------------------------
(* Slot-table specification: can_bus_process_rx calls that find one frame   *)
(* each, starting from the tables that a few earlier frames have left.  The *)
(* ring is left out: the frame is the one rb_pop returns.                    *)

\* A 64-byte fragment frame as the bus delivers it: header and 56 payload bytes.
TFrag(id, seq, idx, cnt, total, fill) ==
    [Identifier |-> id, DataLength |-> 15,
     data |-> EncodeHdr([magic |-> CAN_BUS_FRAG_MAGIC, seq |-> seq, frag_idx |-> idx,
                         frag_cnt |-> cnt, flags |-> 0, total_len |-> total])
              \o [i \in 1..DATA_CAP |-> fill + (i % 9)]]

\* Message M: 100 bytes on std_id 1 with seq 5, two fragments; MF0d repeats
\* fragment 0 with other payload bytes.
MF0  == TFrag(1, 5, 0, 2, 100, 10)
MF1  == TFrag(1, 5, 1, 2, 100, 20)
MF0d == TFrag(1, 5, 0, 2, 100, 30)

\* Fragment 0 of the next message on std_id 1 (seq 6).
NewSeq == TFrag(1, 6, 0, 2, 100, 40)

\* Fragments with the std_id and seq of M whose frag_cnt or total_len differs.
BadCnt == TFrag(1, 5, 1, 3, 100, 50)
BadLen == TFrag(1, 5, 1, 2, 101, 60)

\* Fragment 0 of a two-fragment message on std_id k.
Other(k) == TFrag(k, 1, 0, 2, 100, 70 + 10 * k)

\* A message of one fragment (40 bytes) on std_id 6.
Single == TFrag(6, 1, 0, 1, 40, 140)

\* Fragment 1 of a 40-byte message on std_id 7: its offset 56 is beyond the
\* message.
OffEnd == TFrag(7, 1, 1, 2, 40, 200)

\* Frames with the magic that fail the header validation, one per test.
BadHdrs ==
    {TFrag(1, 5, 0, 0, 100, 150), TFrag(1, 5, 2, 2, 100, 160), TFrag(1, 5, 0, 65, 100, 170),
     TFrag(1, 5, 0, 2, 0, 180), TFrag(1, 5, 0, 2, 2049, 190)}

TableMsgs ==
    {MF0, MF1, MF0d, NewSeq, BadCnt, BadLen, Single, OffEnd, MsgRaw16, Other(5)}
        \cup BadHdrs

\* 2^32 - 2: the tick wraps while the table fills.
TableTickStart == <<U16 - 1, U16 - 2>>

\* One can_bus_process_rx call at tick now that finds frame m in the ring:
\* the sweep, then handle_rx_frame.  pre is the table handle_rx_frame is given.
TableStep(st, subs, m, now) ==
    LET f     == PushSlot(ZeroFrame, m.Identifier % 2048, m.data,
                          Min(can_bus_dlc_to_len(m.DataLength), 64))
        swept == reasm_expire_old(st.tbl, now)
        r     == handle_rx_frame(swept, f, now)
    IN  [tbl |-> r.tbl, pre |-> swept, f |-> FrameView(f),
         copy |-> FragCopy(swept, f, now),
         handled |-> Append(st.handled, [frame |-> FrameView(f), now |-> now]),
         notified |-> st.notified \o
              (IF r.deliver = <<>> THEN <<>>
               ELSE can_bus_notify_rx(subs, r.deliver[1].data, r.deliver[1].len,
                                      Len(st.handled) + 1))]

\* The frames received since boot in the initial states, with their arrival
\* time in ms after boot.  In one of them the sweep before the third frame
\* expires the slot of the first.
TableScripts ==
    {<<>>,
     <<[m |-> MF0, at |-> 0]>>,
     <<[m |-> Other(2), at |-> 0], [m |-> Other(3), at |-> 1], [m |-> Other(4), at |-> 2],
       [m |-> Other(5), at |-> 3], [m |-> Other(2), at |-> 3]>>,
     <<[m |-> MF0, at |-> 0], [m |-> Other(2), at |-> 1], [m |-> Other(3), at |-> 1],
       [m |-> Other(4), at |-> 2]>>,
     <<[m |-> MF0, at |-> 0], [m |-> Other(2), at |-> 1], [m |-> Other(3), at |-> 2]>>,
     <<[m |-> MF0, at |-> 0], [m |-> Other(3), at |-> 100], [m |-> Other(2), at |-> 300]>>,
     <<[m |-> MF0, at |-> 0], [m |-> Other(2), at |-> 0], [m |-> Other(3), at |-> 1],
       [m |-> Other(4), at |-> 2], [m |-> MF1, at |-> 2]>>}

TableBoot ==
    [tbl |-> [i \in SlotIdx |-> FreeSlot], handled |-> <<>>, notified |-> <<>>]

RECURSIVE Preload(_, _, _)
Preload(sc, subs, k) ==
    IF k = 0 THEN TableBoot
    ELSE TableStep(Preload(sc, subs, k - 1), subs, sc[k].m,
                   U32Add(TableTickStart, U32Of(sc[k].at)))

RecvFrom(msgs) ==
    /\ rxCall.n < MaxRecv
    /\ \E m \in msgs :
          LET st == TableStep([tbl |-> g_reasm, handled |-> handled,
                               notified |-> notified], g_subs, m, tick)
          IN  /\ g_reasm' = st.tbl
              /\ handled' = st.handled
              /\ notified' = st.notified
              /\ rxCall' = [done |-> TRUE, n |-> rxCall.n + 1, tbl |-> st.pre,
                            f |-> st.f, now |-> tick, copy |-> st.copy]
    /\ UNCHANGED <<ringVars, popVars, histVars, wpc, proc_now, subVars, clockVars, txVars,
                   dlcArg, dlcRes, clk, timeVars, workVars, routerVars>>

TableRecv == RecvFrom(TableMsgs)

\* At most one millisecond passes before each frame.
TableTick ==
    /\ rxCall.n < MaxRecv
    /\ tickSteps <= rxCall.n
    /\ Tick(1)

TableInit ==
    /\ RingVarsInit
    /\ TxVarsInit
    /\ SubVarsInit
    /\ ExtVarsInit
    /\ g_subs = TestSubs
    /\ sendBuf = NoBuf
    /\ wpc = "idle"
    /\ proc_now = U32Of(0)
    /\ tickSteps = 0
    /\ \E sc \in TableScripts :
          LET st == Preload(sc, TestSubs, Len(sc))
          IN  /\ g_reasm = st.tbl
              /\ handled = st.handled
              /\ notified = st.notified
              /\ tick = IF sc = <<>> THEN TableTickStart
                        ELSE U32Add(TableTickStart, U32Of(sc[Len(sc)].at))

TableNext == TableRecv \/ TableTick

SpecTable == TableInit /\ [][TableNext]_vars

(***************************************************************************)
(* Fragment frames of every length and with hostile headers, received from *)
(* boot: the copies into the slot buffers.                                 *)
(***************************************************************************)
\* A fragment frame of DLC dl for std_id 1, seq 5.
CFrag(dl, idx, cnt, total) ==
    [Identifier |-> 1, DataLength |-> dl,
     data |-> EncodeHdr([magic |-> CAN_BUS_FRAG_MAGIC, seq |-> 5, frag_idx |-> idx,
                         frag_cnt |-> cnt, flags |-> 0, total_len |-> total])
              \o [i \in 1..(can_bus_dlc_to_len(dl) - HDR_SIZE) |-> 10 * idx + (i % 9)]]

\* DLC 8, 9 and 15: frames of 8, 12 and 64 bytes.
CopyDlcs == {8, 9, 15}

\* Fragment 36 of 56-byte fragments starts 32 bytes before the end of the
\* largest message; the last five headers are the ones the validation rejects.
CopyMsgs ==
    {CFrag(dl, idx, CAN_BUS_REASM_MAX_FRAGS, total) :
        dl \in CopyDlcs, idx \in {0, 1, 36, 63}, total \in {40, CAN_BUS_REASM_MAX_BYTES}}
    \cup {CFrag(dl, idx, 2, 40) : dl \in CopyDlcs, idx \in {0, 1}}
    \cup {CFrag(15, 0, 0, 40), CFrag(15, 2, 2, 40), CFrag(15, 0, 65, 40),
          CFrag(15, 0, 64, 0), CFrag(15, 0, 64, CAN_BUS_REASM_MAX_BYTES + 1)}

CopyRecv == RecvFrom(CopyMsgs)

CopyInit ==
    /\ RingVarsInit
    /\ TxVarsInit
    /\ SubVarsInit
    /\ ExtVarsInit
    /\ g_subs = TestSubs
    /\ sendBuf = NoBuf
    /\ wpc = "idle"
    /\ proc_now = U32Of(0)
    /\ tickSteps = 0
    /\ g_reasm = TableBoot.tbl
    /\ handled = TableBoot.handled
    /\ notified = TableBoot.notified
    /\ tick = TableTickStart

CopyNext == CopyRecv

SpecCopy == CopyInit /\ [][CopyNext]_vars

-----------------------------------------------------------------------------
(* Clock specification: the ThreadX timer advances the 32-bit tick counter  *)
(* from boot, nothing else writes it, and tx_raw_now_ms is called before     *)
(* 2^32 ticks have passed since its last call.  clk.ticks64 counts the timer *)
(* interrupts.                                                               *)

\* Numbers of timer interrupts between two steps: 1, 2^31, 3 * 2^30, 2^32 - 1.
AdvanceChoices ==
    {<<0, 0, 0, 1>>, <<0, 0, 32768, 0>>, <<0, 0, 49152, 0>>, <<0, 0, U16 - 1, U16 - 1>>}

TimerAdvance ==
    /\ clk.n < MaxAdvances
    /\ Len(reads) < MaxClockReads
    /\ \E d \in AdvanceChoices :
          /\ LimbULt(LimbAdd(clk.since, d, 0), <<0, 1, 0, 0>>)
          /\ tx_time' = LimbAdd(tx_time, Trunc(d, 2), 0)
          /\ clk' = [ticks64 |-> LimbAdd(clk.ticks64, d, 0),
                     since |-> LimbAdd(clk.since, d, 0), n |-> clk.n + 1]
    /\ UNCHANGED <<tps, last_ticks32, high, sync, reads, syncTicks, dlcArg, dlcRes, rxCall,
                   canVars, workVars, routerVars>>

\* The tx_raw_now_ms call of fn, and what fn returns: r.ms for the callers that
\* use the reading as it is.
ReadRecord(fn, now, ret) ==
    [fn |-> fn, ms |-> now.ms, high |-> now.high, ticks64 |-> clk.ticks64,
     r |-> g_router.r, start |-> g_router.start_time, ret |-> ret]

ClockFrame ==
    UNCHANGED <<tps, tx_time, sync, syncTicks, dlcArg, dlcRes, rxCall, canVars, workVars,
                g_can_rx_subscribed, g_can_side_id, th, routers, rxLog>>

\* A caller that uses the reading as it is (telemetry.c:700).
ClockRead ==
    /\ Len(reads) < MaxClockReads
    /\ LET now == tx_raw_now_ms(tx_time, last_ticks32, high, tps)
       IN  /\ last_ticks32' = now.last
           /\ high' = now.high
           /\ reads' = Append(reads, ReadRecord("tx_raw_now_ms", now, now.ms))
    /\ clk' = [clk EXCEPT !.since = <<0, 0, 0, 0>>]
    /\ UNCHANGED g_router
    /\ ClockFrame

\* telemetry.c:773-775: init_telemetry_router publishes the router and its
\* start time.
ClockRouterStart ==
    /\ Len(reads) < MaxClockReads
    /\ g_router.r = NULL
    /\ LET now == tx_raw_now_ms(tx_time, last_ticks32, high, tps)
       IN  /\ last_ticks32' = now.last
           /\ high' = now.high
           /\ reads' = Append(reads, ReadRecord("init_telemetry_router", now, now.ms))
           /\ g_router' = [r |-> 1, created |-> 1, start_time |-> now.ms]
    /\ clk' = [clk EXCEPT !.since = <<0, 0, 0, 0>>]
    /\ ClockFrame

\* telemetry.c:584-589
node_now_since_ms ==
    /\ Len(reads) < MaxClockReads
    /\ LET now == tx_raw_now_ms(tx_time, last_ticks32, high, tps)
           ret == IF g_router.r # NULL THEN LimbSub(now.ms, g_router.start_time)
                  ELSE <<0, 0, 0, 0>>
       IN  /\ last_ticks32' = now.last
           /\ high' = now.high
           /\ reads' = Append(reads, ReadRecord("node_now_since_ms", now, ret))
    /\ clk' = [clk EXCEPT !.since = <<0, 0, 0, 0>>]
    /\ UNCHANGED g_router
    /\ ClockFrame

ClockInit ==
    /\ RingVarsInit
    /\ RxVarsInit
    /\ TxVarsInit
    /\ SubVarsInit
    /\ g_subs = NoSubs
    /\ tick = U32Of(0)
    /\ sendBuf = NoBuf
    /\ dlcArg = NoDlcArg
    /\ dlcRes = NoDlcRes
    /\ rxCall = NoRxCall
    /\ clk = NoClk
    /\ tps \in TpsChoices
    /\ tx_time = <<0, 0>>
    /\ last_ticks32 = <<0, 0>>
    /\ high = <<0, 0, 0, 0>>
    /\ sync = NoSync
    /\ reads = <<>>
    /\ syncTicks = [total |-> 0, after |-> 0]
    /\ WorkVarsInit
    /\ RouterVarsInit

ClockNext == TimerAdvance \/ ClockRead \/ ClockRouterStart \/ node_now_since_ms

SpecClock == ClockInit /\ [][ClockNext]_vars

-----------------------------------------------------------------------------
(* Ring claims *)

IsPrefix(s, t) == Len(s) <= Len(t) /\ \A i \in 1..Len(s) : s[i] = t[i]

\* Test frames a..b in push order.
TestFrames(a, b) == [i \in 1..(IF b >= a THEN b - a + 1 ELSE 0) |-> TestFrame(a + i - 1)]

\* The frames between tail and head, oldest first.
RingContents ==
    [i \in 1..Occupancy |->
        FrameView(g_rx_ring[(g_rx_tail + i - 1) % CAN_BUS_RX_RING_DEPTH])]

\* C1: while no push has found the ring full, the frames rb_pop has returned are
\* exactly the first pushed frames, unmodified and in push order (each once), under
\* every interleaving of ISR pushes with the steps of rb_pop; and with a worker
\* that keeps calling rb_pop every pushed frame is eventually returned: unless a
\* push finds the ring full, the frames returned end up being all the frames of
\* the (finite) pushed stream.
C1_FifoNoOverflow ==
    /\ [](evictCount = 0 => IsPrefix(popped, TestFrames(1, pushCount)))
    /\ <>[](evictCount > 0 \/ popped = TestFrames(1, pushCount))

\* Frames have been popped while the ISR pushed between the steps of a pop, and
\* no push has found the ring full.
C1_Witness ==
    /\ evictCount = 0
    /\ Len(popped) >= 3
    /\ pc = "copy_data"
    /\ pushCount > Len(popped) + 2
    /\ g_rx_head # pop_t

\* The scenario of C2: DEPTH+1 frames pushed into the empty ring before the first
\* call of rb_pop, and no push since.
OverflowScenario ==
    /\ firstPop = "overflow"
    /\ pushCount = CAN_BUS_RX_RING_DEPTH + 1

Drained == pc = "idle" /\ g_rx_head = g_rx_tail

\* C2 as stated: after frames #1..#DEPTH and then #DEPTH+1 are pushed with no pop,
\* the pops return #2, #3, ... and the last frame popped is #DEPTH+1.
C2_Original ==
    OverflowScenario =>
        /\ IsPrefix(popped, TestFrames(2, CAN_BUS_RX_RING_DEPTH + 1))
        /\ Drained => popped = TestFrames(2, CAN_BUS_RX_RING_DEPTH + 1)

\* C2 (amended): the ring holds DEPTH-1 frames.  After frames #1..#DEPTH+1 are
\* pushed with no pop, frames #1 and #2 have been dropped: the pops return #3, #4,
\* ... in order and the last frame popped is #DEPTH+1.  A push onto a full ring
\* discards exactly the single oldest unpopped frame: the ring then holds the
\* frames it held, less the oldest, followed by the new frame.
C2_DropOldest ==
    /\ [](OverflowScenario =>
            /\ IsPrefix(popped, TestFrames(3, CAN_BUS_RX_RING_DEPTH + 1))
            /\ Drained => popped = TestFrames(3, CAN_BUS_RX_RING_DEPTH + 1))
    /\ [][(RingISR /\ rb_is_full(g_rx_head, g_rx_tail)) =>
            /\ Len(RingContents) = CAN_BUS_RX_RING_DEPTH - 1
            /\ RingContents' = Append(Tail(RingContents), TestFrame(pushCount'))]_vars
    /\ [][(RingISR /\ ~rb_is_full(g_rx_head, g_rx_tail)) =>
            RingContents' = Append(RingContents, TestFrame(pushCount'))]_vars

\* The overflow scenario has run to the end: every frame left has been popped.
C2_Witness ==
    /\ OverflowScenario
    /\ Drained
    /\ Len(popped) = CAN_BUS_RX_RING_DEPTH - 1
    /\ evictCount = 2

\* C3: rb_pop tolerates the ISR advancing tail while it runs.  Every frame rb_pop
\* returns is a frame that was pushed (not a mix of two), the frames returned are
\* in push order, and no frame is lost other than those the ISR evicted: every
\* pushed frame has been returned, was evicted by a push, or is still between tail
\* and head (a worker write that moves tail backwards is, on the circular index,
\* a jump over all the unpopped frames, which this excludes).
C3_PopToleratesEviction ==
    /\ \A i \in 1..Len(popped) : \E k \in 1..pushCount : popped[i] = TestFrame(k)
    /\ \A i \in 1..(Len(popped) - 1) : popped[i].std_id < popped[i + 1].std_id
    /\ pushCount <= Len(popped) + evictCount + Occupancy


-----------------------------------------------------------------------------
(* Receive claims *)

\* The frame the worker sees for a message of the bus.
RxFrame(m) ==
    LET n == Min(can_bus_dlc_to_len(m.DataLength), FRAME_DATA_BYTES)
    IN  [std_id |-> m.Identifier % 2048, len |-> n, data |-> SubSeq(m.data, 1, n)]

\* A frame whose payload starts with the 8-byte header: bytes 44 53 on the wire.
HasFragMagic(f) == f.len >= 8 /\ f.data[1] = 68 /\ f.data[2] = 83

Subscribers ==
    {<<g_subs[i].cb, g_subs[i].user>> : i \in {j \in DOMAIN g_subs : g_subs[j].cb # NULL}}

\* The callback invocations made by the handle_rx_frame calls numbered in S.
NotifiedAt(S) == SelectSeq(notified, LAMBDA r : r.at \in S)

\* n is one invocation per subscriber, each with the bytes data.
OncePerSubscriber(n, data) ==
    /\ Len(n) = Cardinality(Subscribers)
    /\ {<<n[i].cb, n[i].user>> : i \in 1..Len(n)} = Subscribers
    /\ \A i \in 1..Len(n) : n[i].data = data /\ n[i].len = Len(data)

TooOld(last, now) == U32Gt(Age(now, last), U32Of(CAN_BUS_REASM_TIMEOUT_MS))

FragsA == {RxFrame(MsgA(i)) : i \in 0..2}

\* C4: when the three fragments of message A are handled one after the other, in
\* any order and within 250 ms, whatever was handled before, these three calls
\* notify every subscriber exactly once, with the 150 bytes of the sender.
C4_ReassemblyAnyOrder ==
    \A j \in 1..(Len(handled) - 2) :
        (/\ {handled[j + k].frame : k \in 0..2} = FragsA
         /\ ~TooOld(handled[j].now, handled[j + 2].now))
        => OncePerSubscriber(NotifiedAt(j..(j + 2)), PayloadA)

\* C6: every byte of a reassembled message given to the subscribers is a payload
\* byte, at that offset of the concatenation, of a handled fragment with the
\* std_id and seq of the fragment that completed the message.
C6_DeliveredBytesFromFragments ==
    \A n \in 1..Len(notified) :
        LET r == notified[n]
            c == handled[r.at].frame
        IN  HasFragMagic(c) =>
                \A p \in 1..r.len : \E j \in 1..r.at :
                    LET g == handled[j].frame
                        q == p - g.data[4] * DATA_CAP
                    IN  /\ HasFragMagic(g)
                        /\ g.std_id = c.std_id
                        /\ g.data[3] = c.data[3]
                        /\ q \in 1..(g.len - HDR_SIZE)
                        /\ g.data[HDR_SIZE + q] = r.data[p]

SlotIsFree(s) ==
    /\ s.active = 0 /\ s.std_id = 0 /\ s.seq = 0 /\ s.frag_cnt = 0
    /\ s.total_len = 0 /\ s.got_count = 0 /\ s.got_mask = {}

\* C7: the step that starts a run of can_bus_process_rx handles no frame, frees
\* every active slot whose last activity is more than 250 ms (mod 2^32) before
\* the tick and leaves every other active slot as it is; so while frames are
\* handled no active slot is older than 250 ms.
C7_StalenessSweep ==
    /\ [][(wpc = "idle" /\ wpc' = "drain") =>
            /\ handled' = handled
            /\ notified' = notified
            /\ \A i \in SlotIdx :
                  g_reasm[i].active # 0 =>
                      IF TooOld(g_reasm[i].last_tick_ms, tick)
                      THEN SlotIsFree(g_reasm'[i])
                      ELSE g_reasm'[i] = g_reasm[i]]_vars
    /\ [](wpc = "drain" =>
            \A i \in SlotIdx :
                g_reasm[i].active # 0 => ~TooOld(g_reasm[i].last_tick_ms, proc_now))

\* Fragment 0 of message A was handled at 2^32 - 250, the tick wrapped to 1 and
\* the sweep of the next run has freed its slot.
C7_Witness ==
    /\ wpc = "drain"
    /\ proc_now = U32Of(1)
    /\ Len(handled) = 1
    /\ handled[1] = [frame |-> RxFrame(MsgA(0)), now |-> TickStart]
    /\ SlotIsFree(g_reasm[0])
    /\ Len(g_reasm[0].buf) = DATA_CAP

\* C8: when fragment 1 of message A has just been handled (the worker is at the
\* tick of that call), more than 250 ms after fragment 0 and with nothing
\* handled in between, that call has notified nobody and std_id 3 has one active
\* slot, with the bookkeeping of a slot that has seen fragment 1 only.
C8_StaleExpiry ==
    \A k \in 1..(Len(handled) - 1) :
        (/\ wpc = "drain"
         /\ proc_now = handled[k + 1].now
         /\ k + 1 = Len(handled)
         /\ handled[k].frame = RxFrame(MsgA(0))
         /\ handled[k + 1].frame = RxFrame(MsgA(1))
         /\ TooOld(handled[k].now, handled[k + 1].now))
        => /\ NotifiedAt({k + 1}) = <<>>
           /\ \E i \in SlotIdx :
                 /\ \A j \in SlotIdx :
                       (g_reasm[j].active # 0 /\ g_reasm[j].std_id = 3) <=> j = i
                 /\ g_reasm[i].seq = 5
                 /\ g_reasm[i].frag_cnt = 3
                 /\ g_reasm[i].total_len = 150
                 /\ g_reasm[i].got_count = 1
                 /\ g_reasm[i].got_mask = {1}
                 /\ g_reasm[i].last_tick_ms = handled[k + 1].now
                 /\ SubSeq(BufRead(g_reasm[i].buf, 2 * DATA_CAP), DATA_CAP + 1, 2 * DATA_CAP)
                       = SubSeq(PayloadA, DATA_CAP + 1, 2 * DATA_CAP)

\* Fragment 0, 251 ms, fragment 1: slot 0 holds fragment 1 only (the bytes of
\* fragment 0 are still in buf, unmarked).
C8_Witness ==
    /\ wpc = "drain"
    /\ Len(handled) = 2
    /\ handled[1].frame = RxFrame(MsgA(0))
    /\ handled[2].frame = RxFrame(MsgA(1))
    /\ TooOld(handled[1].now, handled[2].now)
    /\ g_reasm[0].active = 1
    /\ g_reasm[0].got_mask = {1}
    /\ g_reasm[0].buf[1] = PayloadA[1]

\* C9: a handled frame that is shorter than 8 bytes or does not start with the
\* bytes 44 53 is given to every subscriber once, with its own bytes and length,
\* and leaves the reassembly table as it is; a frame of at least 8 bytes that
\* starts with 44 53 is never given to a subscriber as it is.
C9_RawDelivery ==
    [][Len(handled') = Len(handled) + 1 =>
        LET k   == Len(handled')
            f   == handled'[k].frame
            new == SelectSeq(notified', LAMBDA r : r.at = k)
        IN  /\ notified' = notified \o new
            /\ IF HasFragMagic(f)
               THEN \A i \in 1..Len(new) : new[i].data # f.data
               ELSE /\ OncePerSubscriber(new, f.data)
                    /\ \A i \in 1..Len(new) : new[i].len = f.len
                    /\ g_reasm' = g_reasm]_vars

\* The 16-byte frame 00..0F and the 4-byte frame 44 53 01 02 have been delivered
\* raw to both subscribers while slot 0 holds fragment 0 of message A.
C9_Witness ==
    /\ Len(handled) = 3
    /\ handled[1].frame = RxFrame(MsgA(0))
    /\ g_reasm[0].active = 1
    /\ g_reasm[0].got_mask = {0}
    /\ Len(notified) = 4
    /\ notified[1].data = [i \in 1..16 |-> i - 1]
    /\ notified[2].len = 16
    /\ notified[3].data = <<68, 83, 1, 2>>
    /\ notified[4].len = 4

-----------------------------------------------------------------------------
(* Round-trip claim *)

\* C5: once the receiver has handled every frame of a successful
\* can_bus_send_large call, every subscriber has been called exactly once, with
\* the length and the bytes of the buffer sent; before that nobody is called.
C5_RoundTrip ==
    txRet = "HAL_OK" =>
        IF Len(handled) = Len(txq)
        THEN /\ OncePerSubscriber(notified, sendBuf.bytes)
             /\ \A i \in 1..Len(notified) : notified[i].len = Len(sendBuf.bytes)
        ELSE notified = <<>>

\* The 2048-byte buffer, sent with seq 255 in 37 frames, has been delivered.
C5_Witness ==
    /\ txRet = "HAL_OK"
    /\ Len(sendBuf.bytes) = CAN_BUS_REASM_MAX_BYTES
    /\ g_seq = 0
    /\ Len(txq) = 37
    /\ Len(handled) = Len(txq)
    /\ Len(notified) = 2
    /\ notified[1].data = sendBuf.bytes

-----------------------------------------------------------------------------
(* Registry claim *)

Registered(subs) ==
    {i \in DOMAIN subs : subs[i].cb # NULL}

\* C10: a can_bus_subscribe_rx call with a null callback, with a pair that is
\* already in the table or with no free entry returns HAL_ERROR and leaves the
\* table as it is; any other call returns HAL_OK and writes the pair into one
\* free entry.  In every state the table has 8 entries and no two registered
\* entries hold the same pair.
C10_Subscribe ==
    /\ [][(subCalls' = subCalls + 1 /\ subCall'.op = "subscribe") =>
            LET cb   == subCall'.cb
                user == subCall'.user
                dup  == \E i \in DOMAIN g_subs :
                            g_subs[i].cb = cb /\ g_subs[i].user = user
                full == Registered(g_subs) = DOMAIN g_subs
            IN  IF cb = NULL \/ dup \/ full
                THEN subCall'.ret = HAL_ERROR /\ g_subs' = g_subs
                ELSE /\ subCall'.ret = HAL_OK
                     /\ \E i \in DOMAIN g_subs \ Registered(g_subs) :
                           g_subs' = [g_subs EXCEPT ![i] = [cb |-> cb, user |-> user]]]_vars
    /\ [](/\ DOMAIN g_subs = 0..(CAN_BUS_MAX_SUBSCRIBERS - 1)
          /\ Cardinality(Registered(g_subs)) <= CAN_BUS_MAX_SUBSCRIBERS
          /\ \A i, j \in Registered(g_subs) :
                (g_subs[i].cb = g_subs[j].cb /\ g_subs[i].user = g_subs[j].user) => i = j)

\* A new pair was refused because all 8 entries are in use, after an unsubscribe
\* and a subscribe had refilled entry 0.
C10_Witness ==
    /\ subCalls = 3
    /\ subCall = [op |-> "subscribe", cb |-> 1, user |-> 0, ret |-> HAL_ERROR]
    /\ Registered(g_subs) = DOMAIN g_subs
    /\ g_subs[0] = [cb |-> 3, user |-> 2]
    /\ \A i \in DOMAIN g_subs : g_subs[i] # [cb |-> 1, user |-> 0]

\* The (callback, user) pairs a can_bus_notify_rx call on table subs invokes, in
\* order.
Invoked(subs) ==
    LET n == can_bus_notify_rx(subs, <<0>>, 1, 0)
    IN  [i \in 1..Len(n) |-> <<n[i].cb, n[i].user>>]

\* C11: a can_bus_unsubscribe_rx call for a registered pair returns HAL_OK and
\* clears exactly that entry, so that a notification no longer invokes the pair
\* and still invokes every other one, in the same order; for a pair that is not
\* registered (or a null callback) it returns HAL_ERROR and leaves the table as
\* it is.  Unsubscribing the pair a second time returns HAL_ERROR, and a
\* subscribe of a new pair right after a successful unsubscribe returns HAL_OK
\* and stores the pair.
C11_Unsubscribe ==
    /\ [][(subCalls' = subCalls + 1 /\ subCall'.op = "unsubscribe") =>
            LET cb   == subCall'.cb
                user == subCall'.user
                hit  == {i \in Registered(g_subs) :
                            g_subs[i].cb = cb /\ g_subs[i].user = user}
            IN  IF hit = {}
                THEN subCall'.ret = HAL_ERROR /\ g_subs' = g_subs
                ELSE /\ subCall'.ret = HAL_OK
                     /\ \E i \in hit :
                           g_subs' = [g_subs EXCEPT ![i] = [cb |-> NULL, user |-> NULL]]
                     /\ Invoked(g_subs') =
                           SelectSeq(Invoked(g_subs), LAMBDA q : q # <<cb, user>>)]_vars
    /\ [][(/\ subCall.op = "unsubscribe" /\ subCall.ret = HAL_OK
            /\ subCalls' = subCalls + 1
            /\ subCall'.cb = subCall.cb /\ subCall'.user = subCall.user) =>
            IF subCall'.op = "unsubscribe"
            THEN subCall'.ret = HAL_ERROR
            ELSE /\ subCall'.ret = HAL_OK
                 /\ \E i \in DOMAIN g_subs \ Registered(g_subs) :
                       g_subs'[i] = [cb |-> subCall.cb, user |-> subCall.user]]_vars
    /\ [][(/\ subCall.op = "unsubscribe" /\ subCall.ret = HAL_OK
            /\ subCalls' = subCalls + 1
            /\ subCall'.op = "subscribe" /\ subCall'.cb # NULL
            /\ <<subCall'.cb, subCall'.user>> \notin
                  {<<g_subs[i].cb, g_subs[i].user>> : i \in Registered(g_subs)}) =>
            /\ subCall'.ret = HAL_OK
            /\ \E i \in DOMAIN g_subs \ Registered(g_subs) :
                  g_subs'[i] = [cb |-> subCall'.cb, user |-> subCall'.user]]_vars

\* From the full table: (1, 0) was unsubscribed, which freed entry 0, and the
\* second unsubscribe of (1, 0) has failed.
C11_Witness ==
    /\ subCalls = 2
    /\ subCall = [op |-> "unsubscribe", cb |-> 1, user |-> 0, ret |-> HAL_ERROR]
    /\ Registered(g_subs) = DOMAIN g_subs \ {0}
    /\ Len(Invoked(g_subs)) = CAN_BUS_MAX_SUBSCRIBERS - 1

-----------------------------------------------------------------------------
(* Send claims *)

CeilDiv(a, b) == (a + b - 1) \div b

\* C12: after a can_bus_send_large call that returned HAL_OK for a buffer of L
\* bytes, the driver has been given ceil(L/56) frames with DLC 15 (64 bytes) on
\* the buffer's id; frame i starts with 44 53, the call's seq, i, ceil(L/56),
\* flags FIRST (1) iff i = 0 plus LAST (2) iff i is the last index, and L in
\* little-endian, followed by bytes [56 i, min(56 (i + 1), L)) of the buffer
\* and zeros up to 64 bytes.
C12_Fragmentation ==
    txRet = "HAL_OK" =>
        LET L == Len(sendBuf.bytes)
            n == CeilDiv(L, 56)
        IN  /\ Len(txq) = n
            /\ \A i \in 0..(n - 1) :
                  LET fr  == txq[i + 1]
                      end == IF 56 * (i + 1) < L THEN 56 * (i + 1) ELSE L
                  IN  /\ fr.Identifier = sendBuf.std_id
                      /\ fr.DataLength = 15
                      /\ Len(fr.data) = 64
                      /\ SubSeq(fr.data, 1, 8) =
                            <<68, 83, (g_seq - 1) % 256, i, n,
                              (IF i = 0 THEN 1 ELSE 0) + (IF i = n - 1 THEN 2 ELSE 0),
                              L % 256, L \div 256>>
                      /\ SubSeq(fr.data, 9, 8 + end - 56 * i) =
                            SubSeq(sendBuf.bytes, 56 * i + 1, end)
                      /\ \A j \in (9 + end - 56 * i)..64 : fr.data[j] = 0

\* The 150-byte buffer sent with seq 255: three frames, the last one with 38
\* bytes of the buffer.
C12_Witness ==
    /\ txRet = "HAL_OK"
    /\ Len(sendBuf.bytes) = 150
    /\ g_seq = 0
    /\ Len(txq) = 3
    /\ txq[3].data[6] = 2
    /\ txq[3].data[8 + 38] = sendBuf.bytes[150]
    /\ txq[3].data[8 + 39] = 0

\* No active reassembly slot holds a message of std_id with sequence number seq.
NoSlotFor(std_id, seq) ==
    \A i \in SlotIdx :
        ~(g_reasm[i].active # 0 /\ g_reasm[i].std_id = std_id /\ g_reasm[i].seq = seq)

\* C13: when the driver refuses fragment k of the first message, the call
\* returns the error, the driver has accepted fragments 0..k-1 of that message,
\* in order, and is never given a fragment k or later of it; the receiver never
\* notifies a subscriber while it handles those fragments or with the bytes of
\* that buffer, and no active slot holds the message once a frame of the next
\* message has been handled or a worker run has started more than 250 ms after
\* the last of its fragments.
C13_SendAbort ==
    (Len(txCalls) >= 1 /\ txCalls[1].failAt < CeilDiv(txCalls[1].len, 56)) =>
        LET c == txCalls[1]
            k == c.failAt
        IN  /\ c.st = "HAL_ERROR"
            /\ c.frames = k
            /\ \A i \in 1..k : txq[i].data[3] = c.seq /\ txq[i].data[4] = i - 1
            /\ \A j \in 1..Len(txq) : txq[j].data[3] = c.seq => j <= k
            /\ \A n \in 1..Len(notified) :
                  /\ notified[n].at > k
                  /\ notified[n].data # RtBytes(c.len)
            /\ Len(handled) > k => NoSlotFor(3, c.seq)
            /\ (/\ k > 0 /\ Len(handled) = k /\ wpc = "drain"
                /\ TooOld(handled[k].now, proc_now)) => NoSlotFor(3, c.seq)

\* Fragment 2 of the 150-byte message was refused; the receiver has handled
\* fragments 0 and 1, its slot was swept 251 ms later, nobody was notified.
C13_Witness ==
    /\ Len(txCalls) = 1
    /\ txCalls[1] = [st |-> "HAL_ERROR", failAt |-> 2, frames |-> 2, seq |-> 255,
                     len |-> 150]
    /\ Len(handled) = 2
    /\ wpc = "drain"
    /\ TooOld(handled[2].now, proc_now)
    /\ \A i \in SlotIdx : g_reasm[i].active = 0
    /\ Len(g_reasm[0].buf) = 2 * DATA_CAP
    /\ notified = <<>>

-----------------------------------------------------------------------------
(* Length-conversion claim *)

FdLens == (0..8) \cup {12, 16, 20, 24, 32, 48, 64}

NextFdLen(L) == SetMin({t \in FdLens : t >= L})

\* C14: every DLC code d in 0..15 is given back by len_to_dlc(dlc_to_len(d));
\* for a length L in 0..64 the wire length is the next table length at or
\* above L, len_to_dlc accepts it, and the length decoded from the resulting
\* code is at least L and equals L exactly when L is a table length; and
\* len_to_dlc accepts L itself exactly when L is a table length.
C14_DlcLaws ==
    dlcRes.done =>
        LET v == dlcArg.val
        IN  /\ dlcArg.fn = "dlc_to_len" =>
                  /\ dlcRes.dlc = v
                  /\ dlcRes.wire \in FdLens
            /\ dlcArg.fn = "len_to_dlc" =>
                  /\ (dlcRes.direct # DLC_INVALID) <=> (v \in FdLens)
                  /\ dlcRes.direct # DLC_INVALID =>
                        dlcRes.direct \in DlcCodes /\ dlcRes.len = v
            /\ (dlcArg.fn = "send_bytes" /\ v <= 64) =>
                  /\ dlcRes.wire = NextFdLen(v)
                  /\ dlcRes.dlc \in DlcCodes
                  /\ dlcRes.len = dlcRes.wire
                  /\ dlcRes.len >= v
                  /\ (dlcRes.len = v) <=> (v \in FdLens)
                  /\ (dlcRes.direct = DLC_INVALID) <=> (v \notin FdLens)

\* A 17-byte payload went out as a 20-byte frame with DLC code 11, which the
\* receiver decodes as 20 bytes; 17 itself has no DLC code.
C14_Witness ==
    /\ dlcRes.done
    /\ dlcArg = [fn |-> "send_bytes", val |-> 17]
    /\ dlcRes = [done |-> TRUE, wire |-> 20, dlc |-> 11, len |-> 20,
                 direct |-> DLC_INVALID]

-----------------------------------------------------------------------------
(* Time-sync claims *)

\* The exact sums of the four timestamps, in 80 bits so that nothing overflows.
ExactOffsetSum(t1, t2, t3, t4) ==
    LimbAdd(LimbSub(SignExt(t2, 5), SignExt(t1, 5)),
            LimbSub(SignExt(t3, 5), SignExt(t4, 5)), 0)

ExactDelay(t1, t2, t3, t4) ==
    LimbSub(LimbSub(SignExt(t4, 5), SignExt(t1, 5)),
            LimbSub(SignExt(t3, 5), SignExt(t2, 5)))

\* C15: for every reply (t1, t2, t3) handled at local time t4 the computed
\* offset is ((t2 - t1) + (t3 - t4)) / 2 (the half of the exact sum, rounded
\* to a neighbouring integer) and the computed delay is
\* max(0, (t4 - t1) - (t3 - t2)), which is never negative.
C15_OffsetDelay ==
    (sync.called /\ sync.computed) =>
        LET p  == sync.pkt
            S  == ExactOffsetSum(p.t1, p.t2, p.t3, sync.t4)
            D  == ExactDelay(p.t1, p.t2, p.t3, sync.t4)
            o  == SignExt(sync.offset_ms, 5)
            r  == LimbSub(S, LimbAdd(o, o, 0))
        IN  /\ r \in {LimbOfInt(-1, 5), LimbOfInt(0, 5), LimbOfInt(1, 5)}
            /\ ZeroExt(sync.delay_ms, 5) = (IF LimbIsNeg(D) THEN Zeros(5) ELSE D)
            /\ (p.t1 = U64Of(10000) /\ p.t2 = U64Of(10100) /\ p.t3 = U64Of(10110)
                  /\ sync.t4 = U64Of(10020)) => sync.offset_ms = U64Of(95)

\* |o| <= 30000 for a 64-bit signed o.
WithinClamp(o) == ~LimbSLt(U64Of(30000), o) /\ ~LimbSLt(o, U64Of(-30000))

\* The handled packet is a TIME_SYNC_RESPONSE of at least 32 payload bytes
\* whose computed offset is within +-30000 ms.
Qualifies ==
    /\ sync.pkt.ty = "TIME_SYNC_RESPONSE"
    /\ sync.pkt.payload_len >= 32
    /\ sync.computed
    /\ WithinClamp(sync.offset_ms)

\* The correction moves the clock by at least one tick.
AtLeastOneTick == LimbFitsInt(sync.offset_ms) /\
    (LimbToInt(sync.offset_ms) * tps >= 1000 \/ LimbToInt(sync.offset_ms) * tps <= -1000)

\* C16 as stated: the handler writes the clock exactly for a
\* TIME_SYNC_RESPONSE of at least 32 bytes with |offset| <= 30000 ms; for
\* every other packet the tick counter is unchanged and the handler returns OK.
C16_Original ==
    [][(~sync.called /\ sync'.called) =>
          /\ sync'.set <=> Qualifies'
          /\ (sync'.set /\ AtLeastOneTick') => tx_time' # tx_time
          /\ ~sync'.set => (tx_time' = tx_time /\ sync'.ret = "SEDS_OK")]_vars

\* C16: the handler writes the clock exactly for a TIME_SYNC_RESPONSE of at
\* least 32 bytes with |offset| <= 30000 ms; for every other packet the tick
\* counter is unchanged, and the handler returns OK unless the packet has no
\* payload, in which case it returns SEDS_ERR.
C16_ClockGuard ==
    [][(~sync.called /\ sync'.called) =>
          /\ sync'.set <=> Qualifies'
          /\ (sync'.set /\ AtLeastOneTick') => tx_time' # tx_time
          /\ ~sync'.set => tx_time' = tx_time
          /\ (sync'.ret = "SEDS_OK") <=> (sync'.pkt.payload # NULL)
          /\ sync'.ret \in {"SEDS_OK", "SEDS_ERR"}]_vars

\* A reply whose offset is 39990 ms was discarded: the tick counter still has
\* the value it had when the handler was entered, and the handler returned OK.
C16_Witness ==
    /\ sync.called
    /\ sync.computed
    /\ sync.offset_ms = U64Of(39990)
    /\ ~sync.set
    /\ sync.ret = "SEDS_OK"
    /\ syncTicks.after = 0
    /\ tx_time = sync.cur

\* C17: when the handler applied an offset (|offset| <= 30000 ms, positive or
\* negative), a tx_raw_now_ms reading taken right after it (at most one tick
\* later) equals the reading t4 taken on entry plus the offset, within one
\* tick for the conversion and one more for a tick that elapsed in between.
C17_ClockAfterReply ==
    \A n \in 1..Len(reads) :
        (sync.called /\ sync.set /\ reads[n].after /\ reads[n].since <= 1) =>
            LET want == LimbAdd(SignExt(sync.t4, 5), SignExt(sync.offset_ms, 5), 0)
                diff == LimbSub(ZeroExt(reads[n].ms, 5), want)
                tol  == (1 + reads[n].since) * (1000 \div tps)
            IN  /\ LimbFitsInt(diff)
                /\ LimbToInt(diff) <= tol
                /\ LimbToInt(diff) >= -tol

-----------------------------------------------------------------------------
(* Worker-loop claim *)

\* now - last as an integer of milliseconds on the worker's clock, computed
\* in 80 bits.
ElapsedOnClock(now_ms, last) == LimbSub(ZeroExt(now_ms, 5), ZeroExt(last, 5))

AtLeastPeriod(e) == ~LimbIsNeg(e) /\ ~LimbULt(e, LimbOfInt(2000, 5))

\* C18: a loop iteration issues a request exactly when at least 2000 ms have
\* elapsed on the worker's clock since the previous request, and the clock
\* readings of two consecutive requests are at least 2000 ms apart, also when
\* a time-sync correction moved the clock in between.
C18_RequestPeriod ==
    /\ chk.done => (chk.issued <=> AtLeastPeriod(ElapsedOnClock(chk.now_ms, chk.last)))
    /\ \A n \in 2..Len(reqs) :
          AtLeastPeriod(ElapsedOnClock(reqs[n].now_ms, reqs[n - 1].now_ms))

-----------------------------------------------------------------------------
(* Router claims *)

\* C19: under every interleaving of the entry points called from the two
\* threads, seds_router_new succeeds at most once, telemetry_can_rx is in the
\* CAN subscriber table at most once, and a call that goes on to use the
\* router finds one.
C19_Singleton ==
    /\ Len(routers) <= 1
    /\ Cardinality({i \in DOMAIN g_subs : g_subs[i].cb = telemetry_can_rx}) <= 1
    /\ \A t \in Threads : th[t].pc = "use" => g_router.r # NULL

\* No init_telemetry_router call is between adding the side and publishing.
SideSettled == \A t \in Threads : th[t].pc \notin {"side_fix", "publish"}

\* C20: when adding the CAN side failed, init_telemetry_router has returned
\* OK, the router is published and created, the stored side id is -1 and every
\* received buffer goes to the untagged entry point of that router; when the
\* side was added, every received buffer is tagged with the id the router
\* returned.
C20_SideFallback ==
    /\ \A k \in 1..Len(routers) :
          (routers[k].added /\ SideSettled) =>
              /\ g_router.r = k
              /\ g_router.created = 1
              /\ g_can_side_id = (IF routers[k].side < 0 THEN -1 ELSE routers[k].side)
              /\ \A t \in Threads :
                    (th[t].r = k /\ th[t].pc \in {"idle", "use"}) => th[t].ret = "SEDS_OK"
    /\ \A n \in 1..Len(rxLog) :
          /\ rxLog[n].r # NULL
          /\ routers[rxLog[n].r].added
          /\ routers[rxLog[n].r].side < 0 => ~rxLog[n].tagged
          /\ routers[rxLog[n].r].side >= 0 =>
                (rxLog[n].tagged /\ rxLog[n].side = routers[rxLog[n].r].side)

\* The side could not be added (error -2): two buffers received afterwards
\* both went to the untagged entry point of the one router.
C20_Witness ==
    /\ Len(routers) = 1
    /\ routers[1] = [added |-> TRUE, side |-> -2]
    /\ g_router.r = 1
    /\ g_can_side_id = -1
    /\ Len(rxLog) = 2
    /\ \A n \in 1..2 : rxLog[n] = [r |-> 1, tagged |-> FALSE, side |-> -1]


-----------------------------------------------------------------------------
(* Error-logging claim *)

\* C21: for a formatted message of any untruncated length n, both
\* log_error_asyncronous and log_error_syncronous hand the router a string
\* length equal to min(n, 512), and that length never exceeds the number of
\* characters written into the local buffer.
C21_LogLengthCapped ==
    \A i \in 1..Len(rxLog) :
        rxLog[i].n >= 0 =>
            /\ rxLog[i].len = Min(rxLog[i].n, ERROR_LOG_MAX)
            /\ rxLog[i].len <= rxLog[i].stored


-----------------------------------------------------------------------------
(* Receive-path claims: contexts, slot selection, validation, duplicates    *)

\* C22: the ISR only enqueues.  A step of HAL_FDCAN_RxFifo1Callback invokes no
\* subscriber callback and leaves every reassembly slot as it was; every step
\* that changes a reassembly slot or invokes a subscriber is a step of
\* can_bus_process_rx in worker context, never an ISR step, so no slot is
\* touched by two contexts.
C22_IsrOnlyEnqueues ==
    [][ /\ pushCount' # pushCount =>
              /\ UNCHANGED <<g_reasm, notified, handled, g_subs>>
              /\ g_rx_head' = rb_next(g_rx_head)
        /\ (g_reasm' # g_reasm \/ notified' # notified) =>
              /\ pushCount' = pushCount
              /\ wpc' = "drain"
              /\ wpc \in {"idle", "drain"}
      ]_vars

\* The ISR has queued frames while the worker is inside can_bus_process_rx with
\* a message half reassembled and another one already delivered.
C22_Witness ==
    /\ wpc = "drain"
    /\ pushCount = MaxEvents
    /\ g_rx_head # g_rx_tail
    /\ Len(handled) >= 2
    /\ Len(notified) > 0
    /\ \E s \in SlotIdx : g_reasm[s].active = 1


\* The header fields of a frame that carries the fragment magic, as the
\* protocol lays them out.
FragHdr(f) ==
    [seq |-> f.data[3], frag_idx |-> f.data[4], frag_cnt |-> f.data[5],
     total_len |-> f.data[7] + 256 * f.data[8]]

\* A fragment frame that passes the header validation.
ValidFrag(f) ==
    /\ HasFragMagic(f)
    /\ FragHdr(f).frag_cnt \in 1..64
    /\ FragHdr(f).frag_idx < FragHdr(f).frag_cnt
    /\ FragHdr(f).total_len \in 1..2048

\* The slots of table t that are active for std_id.
SlotsOf(t, std_id) == {i \in SlotIdx : t[i].active # 0 /\ t[i].std_id = std_id}

\* C23: when a valid fragment arrives whose std_id matches an active slot
\* that holds another seq, that slot is reused for the new message: after the
\* call it is active with the std_id and seq of the fragment, frag_cnt and
\* total_len from its header, got_count = 1 and only this fragment's bit set.
C23_SeqChangeReusesSlot ==
    (rxCall.done /\ ValidFrag(rxCall.f)) =>
        \A i \in SlotsOf(rxCall.tbl, rxCall.f.std_id) :
            LET h == FragHdr(rxCall.f)
            IN  (rxCall.tbl[i].seq # h.seq /\ h.frag_cnt > 1) =>
                    /\ g_reasm[i].active = 1
                    /\ g_reasm[i].std_id = rxCall.f.std_id
                    /\ g_reasm[i].seq = h.seq
                    /\ g_reasm[i].frag_cnt = h.frag_cnt
                    /\ g_reasm[i].total_len = h.total_len
                    /\ g_reasm[i].got_count = 1
                    /\ g_reasm[i].got_mask = {h.frag_idx}


\* Slot i of the table after the call has been reset and claimed for frame f:
\* nothing of the old message is left in its fields, and it collects the new
\* message unless that one was complete with this single fragment.
ClaimedFor(i, f) ==
    LET h == FragHdr(f)
    IN  IF h.frag_cnt = 1
        THEN g_reasm[i].active = 0 /\ g_reasm[i].got_mask = {}
        ELSE /\ g_reasm[i].active = 1
             /\ g_reasm[i].std_id = f.std_id
             /\ g_reasm[i].seq = h.seq
             /\ g_reasm[i].frag_cnt = h.frag_cnt
             /\ g_reasm[i].total_len = h.total_len
             /\ g_reasm[i].got_mask \subseteq {h.frag_idx}
             /\ g_reasm[i].got_count = Cardinality(g_reasm[i].got_mask)
             /\ g_reasm[i].last_tick_ms = rxCall.now

\* C24: a valid fragment arrives for an std_id that has no active slot.  If
\* some slot is free, a free slot is claimed and no active slot is changed; if
\* all four slots are active, the slot that is reset and claimed has the
\* largest age (now - last activity, modulo 2^32) and the other three slots
\* are left unchanged.
C24_SlotSelection ==
    (/\ rxCall.done
     /\ ValidFrag(rxCall.f)
     /\ SlotsOf(rxCall.tbl, rxCall.f.std_id) = {}) =>
        LET t    == rxCall.tbl
            free == {i \in SlotIdx : t[i].active = 0}
            age(i) == U32Sub(rxCall.now, t[i].last_tick_ms)
        IN  \E i \in SlotIdx :
                /\ ClaimedFor(i, rxCall.f)
                /\ \A j \in SlotIdx \ {i} : g_reasm[j] = t[j]
                /\ IF free # {} THEN i \in free
                   ELSE \A j \in SlotIdx : U32Ge(age(i), age(j))

\* All four slots were active, the tick has wrapped since their last
\* activity, and the fragment of a fifth std_id took the slot that was not
\* the first one filled.
C24_Witness ==
    /\ rxCall.done
    /\ ValidFrag(rxCall.f)
    /\ SlotsOf(rxCall.tbl, rxCall.f.std_id) = {}
    /\ \A i \in SlotIdx : rxCall.tbl[i].active = 1
    /\ rxCall.tbl[1].last_tick_ms = <<U16 - 1, U16 - 1>>
    /\ rxCall.now = <<0, 2>>
    /\ g_reasm[1].active = 1
    /\ g_reasm[1].std_id = rxCall.f.std_id
    /\ g_reasm[0] = rxCall.tbl[0]


\* The callback invocations made by the last handle_rx_frame call.
LastNotified == NotifiedAt({Len(handled)})

\* C25: a frame carrying the fragment magic with frag_cnt = 0, frag_idx >=
\* frag_cnt, frag_cnt > 64, total_len = 0 or total_len > 2048 notifies no
\* subscriber (it is not delivered raw either) and leaves every reassembly
\* slot unchanged.
C25_HeaderRejected ==
    (/\ rxCall.done
     /\ HasFragMagic(rxCall.f)
     /\ LET h == FragHdr(rxCall.f)
        IN  \/ h.frag_cnt = 0
            \/ h.frag_idx >= h.frag_cnt
            \/ h.frag_cnt > 64
            \/ h.total_len = 0
            \/ h.total_len > 2048) =>
        /\ g_reasm = rxCall.tbl
        /\ LastNotified = <<>>

\* A frame announcing 65 fragments arrived for the std_id and seq of a message
\* in progress, and that message's slot is as before.
C25_Witness ==
    /\ rxCall.done
    /\ HasFragMagic(rxCall.f)
    /\ FragHdr(rxCall.f).frag_cnt = 65
    /\ \E i \in SlotsOf(rxCall.tbl, rxCall.f.std_id) :
          /\ rxCall.tbl[i].seq = FragHdr(rxCall.f).seq
          /\ rxCall.tbl[i].got_count = 1
          /\ g_reasm[i] = rxCall.tbl[i]
    /\ LastNotified = <<>>


\* The slots of table t that collect the message of fragment frame f.
SlotsOfMsg(t, f) == {i \in SlotsOf(t, f.std_id) : t[i].seq = FragHdr(f).seq}

\* C26: when a fragment arrives for an active slot with the same std_id and
\* seq but its frag_cnt or total_len differs from the values recorded in the
\* slot, the slot is reset to FREE, none of the fragment's bytes are stored
\* and no subscriber is notified.
C26_ParamMismatchResets ==
    (rxCall.done /\ ValidFrag(rxCall.f)) =>
        \A i \in SlotsOfMsg(rxCall.tbl, rxCall.f) :
            (\/ rxCall.tbl[i].frag_cnt # FragHdr(rxCall.f).frag_cnt
             \/ rxCall.tbl[i].total_len # FragHdr(rxCall.f).total_len) =>
                /\ SlotIsFree(g_reasm[i])
                /\ g_reasm[i].buf = rxCall.tbl[i].buf
                /\ LastNotified = <<>>

\* Fragment 1 with total_len 101 arrived while fragment 0 of the 100-byte
\* message with the same std_id and seq was stored: the slot is free.
C26_Witness ==
    /\ rxCall.done
    /\ rxCall.f = RxFrame(BadLen)
    /\ \E i \in SlotsOfMsg(rxCall.tbl, rxCall.f) :
          /\ rxCall.tbl[i].total_len = 100
          /\ rxCall.tbl[i].got_mask = {0}
          /\ SlotIsFree(g_reasm[i])
          /\ Len(g_reasm[i].buf) = DATA_CAP
    /\ LastNotified = <<>>


\* The fragments of message M, duplicates included.
FragsM == {RxFrame(MF0), RxFrame(MF1), RxFrame(MF0d)}

\* The payloads got (fragment index -> bytes) joined in index order from j on.
RECURSIVE JoinFrom(_, _, _)
JoinFrom(got, j, cnt) ==
    IF j >= cnt THEN <<>> ELSE got[j] \o JoinFrom(got, j + 1, cnt)

\* What a receiver that ignores duplicates delivers for the first k frames of
\* the history: it keeps the first copy of each fragment index and, once it
\* has all of them, delivers the first total_len bytes of their concatenation.
RECURSIVE FirstCopies(_)
FirstCopies(k) ==
    IF k = 0 THEN [got |-> <<>>, out |-> <<>>]
    ELSE LET p   == FirstCopies(k - 1)
             g   == handled[k].frame
             h   == FragHdr(g)
             j   == h.frag_idx + 1
             got == IF j \in DOMAIN p.got THEN p.got
                    ELSE (j :> SubSeq(g.data, HDR_SIZE + 1, g.len)) @@ p.got
         IN  IF DOMAIN got = 1..h.frag_cnt
             THEN [got |-> <<>>,
                   out |-> Append(p.out, SubSeq(JoinFrom(got, 1, h.frag_cnt + 1), 1,
                                                h.total_len))]
             ELSE [got |-> got, out |-> p.out]

\* The byte strings the subscriber with callback cb has been given, in order.
DeliveredTo(cb) ==
    LET mine == SelectSeq(notified, LAMBDA r : r.cb = cb)
    IN  [n \in 1..Len(mine) |-> mine[n].data]

\* C27: handling a fragment whose index bit is already set in the slot of its
\* message leaves got_count, the bitmap and the slot buffer unchanged, even
\* when the duplicate carries other payload bytes, and notifies nobody; and
\* when the frames received are fragments of one message with any duplicates
\* among them, the messages delivered are, in bytes and in number, those of
\* the same stream without the duplicates.
C27_DuplicatesIdempotent ==
    /\ (rxCall.done /\ ValidFrag(rxCall.f)) =>
          \A i \in SlotsOfMsg(rxCall.tbl, rxCall.f) :
              (/\ rxCall.tbl[i].frag_cnt = FragHdr(rxCall.f).frag_cnt
               /\ rxCall.tbl[i].total_len = FragHdr(rxCall.f).total_len
               /\ FragHdr(rxCall.f).frag_idx \in rxCall.tbl[i].got_mask) =>
                  /\ g_reasm[i].got_count = rxCall.tbl[i].got_count
                  /\ g_reasm[i].got_mask = rxCall.tbl[i].got_mask
                  /\ g_reasm[i].buf = rxCall.tbl[i].buf
                  /\ LastNotified = <<>>
    /\ (\A k \in 1..Len(handled) : handled[k].frame \in FragsM) =>
          \A c \in {1, 2} : DeliveredTo(c) = FirstCopies(Len(handled)).out

\* Fragment 0, then a copy of fragment 0 with other payload bytes, then
\* fragment 1: one delivery, with the bytes of the first copy.
C27_Witness ==
    /\ Len(handled) = 3
    /\ handled[1].frame = RxFrame(MF0)
    /\ handled[2].frame = RxFrame(MF0d)
    /\ handled[3].frame = RxFrame(MF1)
    /\ DeliveredTo(1) = <<SubSeq(MF0.data, HDR_SIZE + 1, 64)
                              \o SubSeq(MF1.data, HDR_SIZE + 1, HDR_SIZE + 44)>>
    /\ rxCall.tbl[0].got_mask = {0}


\* C28: completion is transient.  When handling a fragment makes got_count
\* equal frag_cnt (the last missing fragment of a message in progress, or the
\* only fragment of a new message), every registered subscriber is invoked
\* exactly once with buf[0..total_len) and the slot is free when the call
\* returns; and no slot with frag_cnt > 0 and got_count = frag_cnt exists
\* between two frame handlings.
C28_CompletionTransient ==
    /\ \A i \in SlotIdx : ~(g_reasm[i].frag_cnt > 0
                              /\ g_reasm[i].got_count = g_reasm[i].frag_cnt)
    /\ (rxCall.done /\ ValidFrag(rxCall.f)) =>
          LET h == FragHdr(rxCall.f)
              t == rxCall.tbl
          IN  /\ \A i \in SlotsOfMsg(t, rxCall.f) :
                    (/\ t[i].frag_cnt = h.frag_cnt
                     /\ t[i].total_len = h.total_len
                     /\ h.frag_idx \notin t[i].got_mask
                     /\ t[i].got_count + 1 = t[i].frag_cnt) =>
                        /\ OncePerSubscriber(LastNotified,
                                             BufRead(g_reasm[i].buf, h.total_len))
                        /\ SlotIsFree(g_reasm[i])
              /\ (h.frag_cnt = 1 /\ SlotsOf(t, rxCall.f.std_id) = {}) =>
                    \E i \in SlotIdx :
                        /\ OncePerSubscriber(LastNotified,
                                             BufRead(g_reasm[i].buf, h.total_len))
                        /\ BufRead(g_reasm[i].buf, h.total_len)
                              = SubSeq(rxCall.f.data, HDR_SIZE + 1, HDR_SIZE + h.total_len)
                        /\ SlotIsFree(g_reasm[i])
                        /\ \A j \in SlotIdx \ {i} : g_reasm[j] = t[j]

\* The second fragment of M completed the message: both subscribers were
\* invoked and the slot that held fragment 0 is free.
C28_Witness ==
    /\ rxCall.done
    /\ rxCall.f = RxFrame(MF1)
    /\ rxCall.tbl[0].active = 1
    /\ rxCall.tbl[0].got_mask = {0}
    /\ rxCall.tbl[0].std_id = 1
    /\ SlotIsFree(g_reasm[0])
    /\ Len(LastNotified) = 2
    /\ LastNotified[1].len = 100


-----------------------------------------------------------------------------
(* Ring index claim *)

\* C29: under every interleaving of ISR pushes with the steps of rb_pop, the
\* indices stay in 0..63; a push changes the tail only when it finds the ring
\* full and then advances it by exactly one slot, a push onto a ring that is
\* not full leaves the tail unchanged; and the head is written by the push
\* only, never by a step of rb_pop.
C29_RingIndices ==
    /\ [](g_rx_head \in 0..63 /\ g_rx_tail \in 0..63)
    /\ [][ /\ pushCount' # pushCount =>
                /\ g_rx_head' = (g_rx_head + 1) % 64
                /\ g_rx_tail' = IF (g_rx_head + 1) % 64 = g_rx_tail
                                THEN (g_rx_tail + 1) % 64
                                ELSE g_rx_tail
           /\ pushCount' = pushCount => g_rx_head' = g_rx_head
         ]_vars

\* Both indices have wrapped, pushes have moved the tail, and the worker is in
\* the middle of rb_pop with a stale copy of the tail.
C29_Witness ==
    /\ evictCount >= 2
    /\ pushCount > CAN_BUS_RX_RING_DEPTH
    /\ g_rx_head = 1
    /\ g_rx_tail = 2
    /\ pc = "advance"
    /\ pop_t # g_rx_tail


-----------------------------------------------------------------------------
(* Clock-correction claim *)

\* The handler has applied a correction and no timer interrupt has come since:
\* tx_time is the value it wrote.
JustApplied == sync.called /\ sync.set /\ syncTicks.after = 0

\* current_ticks + offset * ticks_per_second / 1000 as a signed 64-bit value,
\* the quotient taken as C takes it.
CorrectedTicks ==
    LimbAdd(ZeroExt(sync.cur, 4),
            LimbOfInt(TruncDiv(LimbToInt(sync.offset_ms) * tps, 1000), 4), 0)

\* C30 as stated: for every in-range offset the tick value written is
\* max(0, current_ticks + offset * ticks_per_second / 1000).
C30_Original ==
    JustApplied =>
        ZeroExt(tx_time, 4) = IF LimbIsNeg(CorrectedTicks) THEN <<0, 0, 0, 0>>
                              ELSE CorrectedTicks

\* C30: an applied correction never writes a negative time.  For every
\* in-range offset the tick value written is the low 32 bits of
\* max(0, current_ticks + offset * ticks_per_second / 1000), so a negative
\* offset larger in magnitude than the current time sets the clock to 0.
C30_ClampAtZero ==
    JustApplied =>
        tx_time = IF LimbIsNeg(CorrectedTicks) THEN <<0, 0>>
                  ELSE Trunc(CorrectedTicks, 2)

\* A correction of more than -1002 ticks arrived 1002 ticks after boot: the
\* clock is at 0.
C30_Witness ==
    /\ JustApplied
    /\ sync.cur = <<0, 1002>>
    /\ LimbIsNeg(CorrectedTicks)
    /\ tx_time = <<0, 0>>


-----------------------------------------------------------------------------
(* Tick-extension claim *)

\* (ticks * 1000) / tps for a 64-bit tick count, computed in 80 bits.
ExactMs(ticks) ==
    LimbDivSmall(LimbMulSmall(ZeroExt(ticks, 5), 1000, 0), tps, 0)

\* C31: when the tick counter is advanced by the timer only and tx_raw_now_ms
\* is called before 2^32 ticks have passed since its last call, each value it
\* returns equals (ticks64 * 1000) / ticks_per_second for the true 64-bit tick
\* count and the values are non-decreasing; the high part holds one 2^32 per
\* wrap of the 32-bit counter; and node_now_since_ms, now minus the router's
\* start time, never underflows.
C31_TickExtension ==
    /\ \A i \in 1..Len(reads) :
          /\ ZeroExt(reads[i].ms, 5) = ExactMs(reads[i].ticks64)
          /\ reads[i].high = <<reads[i].ticks64[1], reads[i].ticks64[2], 0, 0>>
          /\ \A j \in 1..(i - 1) : ~LimbULt(reads[i].ms, reads[j].ms)
          /\ (reads[i].fn = "node_now_since_ms" /\ reads[i].r # NULL) =>
                /\ ~LimbULt(reads[i].ms, reads[i].start)
                /\ LimbAdd(reads[i].ret, reads[i].start, 0) = reads[i].ms
                /\ ~LimbULt(reads[i].ms, reads[i].ret)
          /\ (reads[i].fn = "node_now_since_ms" /\ reads[i].r = NULL) =>
                reads[i].ret = <<0, 0, 0, 0>>

\* The counter has wrapped twice, with a reading in each period: the router
\* started in the first one and node_now_since_ms is called in the third.
C31_Witness ==
    /\ Len(reads) = 3
    /\ reads[1].fn = "init_telemetry_router"
    /\ reads[1].ticks64 = <<0, 0, U16 - 1, U16 - 1>>
    /\ reads[3].fn = "node_now_since_ms"
    /\ reads[3].high = <<0, 2, 0, 0>>
    /\ reads[3].r # NULL
    /\ LimbULt(<<0, 0, 0, 0>>, reads[3].ret)


-----------------------------------------------------------------------------
(* Reassembly-table claims *)

\* The data_cap that applies to fragment frame f on table t: the one recorded
\* in the slot of its message, or the frame's own payload length when the
\* message has no slot yet.
DataCapFor(t, f) ==
    IF SlotsOfMsg(t, f) # {}
    THEN t[CHOOSE i \in SlotsOfMsg(t, f) : TRUE].data_cap
    ELSE f.len - HDR_SIZE

\* C32: a fragment that passes the header validation but whose offset
\* frag_idx * data_cap is >= total_len has no effect on the reassembly table
\* (no slot claimed, reset or evicted, no last activity refreshed) and
\* notifies no subscriber.
C32_OffsetRejectNoEffect ==
    (/\ rxCall.done
     /\ ValidFrag(rxCall.f)
     /\ FragHdr(rxCall.f).frag_idx * DataCapFor(rxCall.tbl, rxCall.f)
            >= FragHdr(rxCall.f).total_len) =>
        /\ g_reasm = rxCall.tbl
        /\ LastNotified = <<>>


\* C33: after any sequence of received frames and staleness sweeps, at most
\* one active reassembly slot exists for any std_id.
C33_OneSlotPerId ==
    \A i, j \in SlotIdx :
        (i # j /\ g_reasm[i].active # 0 /\ g_reasm[j].active # 0) =>
            g_reasm[i].std_id # g_reasm[j].std_id

\* A fragment arrived for an std_id that had an active slot and a free slot
\* was available: the std_id still has its one slot, and three slots are
\* active.
C33_Witness ==
    /\ rxCall.done
    /\ ValidFrag(rxCall.f)
    /\ Cardinality(SlotsOf(rxCall.tbl, rxCall.f.std_id)) = 1
    /\ \E i \in SlotIdx : rxCall.tbl[i].active = 0
    /\ Cardinality(SlotsOf(g_reasm, rxCall.f.std_id)) = 1
    /\ Cardinality({i \in SlotIdx : g_reasm[i].active # 0}) = 3


\* C34: after any sequence of received frames and staleness sweeps, every
\* slot that is not active is free (frag_cnt = 0, total_len = 0, got_count = 0
\* and an empty bitmap); so a slot that has recorded a fragment is active.
C34_InactiveIsFree ==
    \A i \in SlotIdx :
        g_reasm[i].active = 0 =>
            /\ g_reasm[i].frag_cnt = 0
            /\ g_reasm[i].total_len = 0
            /\ g_reasm[i].got_count = 0
            /\ g_reasm[i].got_mask = {}


\* C35: in every reachable state each reassembly slot has got_count equal to
\* the number of bits set in its bitmap, every set bit has an index below
\* frag_cnt, and got_count <= frag_cnt <= 64.
C35_BitmapCount ==
    \A i \in SlotIdx :
        /\ g_reasm[i].got_count = Cardinality(g_reasm[i].got_mask)
        /\ \A b \in g_reasm[i].got_mask : b >= 0 /\ b < g_reasm[i].frag_cnt
        /\ g_reasm[i].got_count <= g_reasm[i].frag_cnt
        /\ g_reasm[i].frag_cnt <= 64

\* A second copy of fragment 0 has been handled for a message in progress:
\* its slot still counts one fragment, with bit 0 set, out of two.
C35_Witness ==
    /\ rxCall.done
    /\ rxCall.f = RxFrame(MF0d)
    /\ \E i \in SlotsOfMsg(rxCall.tbl, rxCall.f) :
          /\ rxCall.tbl[i].got_mask = {0}
          /\ g_reasm[i].active = 1
          /\ g_reasm[i].got_mask = {0}
          /\ g_reasm[i].got_count = 1
          /\ g_reasm[i].frag_cnt = 2

(***************************************************************************)
(* Buffer-bounds claim                                                     *)
(***************************************************************************)
\* C36: for every received frame, whatever its header fields and for every
\* frame length from 8 to 64, the copy into the slot buffer stays inside the
\* buffer: off + take <= total_len <= 2048, take is at most the frame's
\* payload length (frame length minus 8), and no slot buffer holds more than
\* 2048 bytes.
C36_CopyInBounds ==
    /\ rxCall.done =>
          \A k \in 1..Len(rxCall.copy) :
              LET c == rxCall.copy[k]
              IN  /\ c.off >= 0
                  /\ c.take >= 0
                  /\ c.off + c.take <= c.total_len
                  /\ c.total_len <= CAN_BUS_REASM_MAX_BYTES
                  /\ c.take <= rxCall.f.len - HDR_SIZE
    /\ \A i \in SlotIdx : Len(g_reasm[i].buf) <= CAN_BUS_REASM_MAX_BYTES

\* A 64-byte fragment arrives for a slot opened by a 12-byte one: its copy is
\* cut at the end of the message.
C36_Witness ==
    /\ rxCall.done
    /\ rxCall.f.len = 64
    /\ \E i \in SlotsOfMsg(rxCall.tbl, rxCall.f) : rxCall.tbl[i].data_cap = 4
    /\ rxCall.copy = <<[off |-> 4, take |-> 36, payload_len |-> 56, total_len |-> 40]>>
    /\ \E i \in SlotsOfMsg(rxCall.tbl, rxCall.f) : Len(g_reasm[i].buf) = 40

=============================================================================
